---- MODULE Spec2Model ----
(***************************************************************************)
(* Login automation engine of manus_app_improved.                          *)
(*                                                                         *)
(* The model follows one login attempt at a time through                   *)
(*   - AppCore.login_to_website_async        (src/src/core/app_core.py)    *)
(*   - BrowserAutomation.login_to_website    (src/src/core/                *)
(*                                            browser_automation.py)       *)
(*   - FormLoginStrategy / GoogleOAuthStrategy / SystemBrowserLogin-       *)
(*     Strategy .login                                                     *)
(* and keeps the engine's session fields across attempts.  Everything the  *)
(* code reads from outside (HTTP precheck, the page, the user's answers,   *)
(* failures of browser operations) is a nondeterministic input.            *)
(***************************************************************************)
EXTENDS Integers, Sequences, FiniteSets, TLC

VARIABLES
    req,          \* arguments and collaborators of the running attempt
    pc,           \* position of the attempt in the code
    method,       \* current value of google_login_method
    acOauth,      \* has_google_oauth in AppCore.login_to_website_async
    engOauth,     \* has_google_oauth in BrowserAutomation.login_to_website
    promptChoice, \* answer of prompt_google_login_method, "unasked" if not called
    status,       \* the strategy's status dict
    events,       \* status dicts delivered to the callback, as delivered
    ops,          \* page operations performed by the strategy, in order
    ran,          \* strategies whose login() was started in this attempt
    result,       \* dict returned by the entry point
    outcome,      \* "idle" | "running" | "returned" | "raised"
    eng,          \* BrowserAutomation session fields
    initCalls,    \* BrowserAutomation.initialize invocations in this attempt
    closeCalls,   \* BrowserAutomation.close invocations in this attempt
    engCalled,    \* BrowserAutomation.login_to_website was invoked
    sysOpens,     \* webbrowser.open calls in this attempt
    lastLogin,    \* update_last_login calls in this attempt, in order
    oauth,        \* locals of GoogleOAuthStrategy.login
    formLocals,   \* locals of FormLoginStrategy.login: form_info and the
                  \* form_candidates key it adds to the status dict
    detectCall,   \* a call of BrowserAutomation._detect_login_form on its own
    checkCall,    \* a call of FormLoginStrategy._check_login_success on its own
    waitCall,     \* a call of BrowserAutomation.wait_for_user_action on its own
    teardownCall, \* calls of BrowserAutomation.close on its own
    sessionCall,  \* calls of the engine's accessors, initialize and close
    findCall,     \* the sign-in control search of GoogleOAuthStrategy.login
    cliCall,      \* a run of the CLI login command
    taskCall,     \* login tasks of one AppCore running side by side
    precheckCall  \* a call of precheck_google_oauth on its own

attemptVars == <<req, pc, method, acOauth, engOauth, promptChoice, status,
                 events, ops, ran, result, outcome, eng, initCalls, closeCalls,
                 engCalled, sysOpens, lastLogin, oauth, formLocals>>

callVars == <<detectCall, checkCall, waitCall, teardownCall, sessionCall,
             findCall, cliCall, taskCall, precheckCall>>

vars == <<attemptVars, callVars>>

----------------------------------------------------------------------------
(* Vocabulary *)

Entries == {"appcore", "engine", "manual"}
Methods == {"none", "playwright", "system_browser"}
PromptAnswers == {"manual_browser", "continue_automation", "cancel"}
CredStates == {"uninitialized", "missing", "stored"}
DelayConfigs == {"number", "negative", "text"}

\* A status dict, reduced to the keys the callers read.  stage = "absent"
\* stands for a dict without a "stage" key; rua is the value of
\* status.get("requires_user_action", False).
Status(stage, success, rua) == [stage |-> stage, success |-> success, rua |-> rua]

NoStatus == Status("none", "unknown", FALSE)

NoRequest == [entry |-> "none", method |-> "none", forcePrompt |-> FALSE,
              hasPrompt |-> FALSE, hasConfirm |-> FALSE, hasCallback |-> FALSE,
              cred |-> "stored", delay |-> "number"]

Requests == [entry : Entries, method : Methods, forcePrompt : BOOLEAN,
             hasPrompt : BOOLEAN, hasConfirm : BOOLEAN, hasCallback : BOOLEAN,
             cred : CredStates, delay : DelayConfigs]

\* attempts is detection_attempts, activePage is self.page, popup whether a
\* popup page was taken, pages the page each later step worked on, waitEnd
\* how the 2FA user-action wait ended and whether self.page was then still on
\* accounts.google.com.
\* landed is self.page.url when it is tested after the click.
NoOauthLocals == [attempts |-> 0, activePage |-> "main", reloads |-> 0,
                  popup |-> FALSE, pages |-> << >>,
                  waitEnd |-> [how |-> "none", onProvider |-> FALSE],
                  landed |-> [host |-> "", rest |-> ""]]

\* all_candidates of a detection result: no candidate, or a ranked list
CandidateLists == {"empty", "ranked"}

NoFormLocals == [detected |-> FALSE, ambiguous |-> FALSE, fields |-> FALSE,
                 all_candidates |-> "empty", form_candidates |-> "absent"]

\* "if callback: callback(status)": the dict as it is when delivered, and the
\* code that delivered it (AppCore, the engine, or one of the strategies).
Delivered(st, by) ==
    [stage |-> st.stage, success |-> st.success, rua |-> st.rua, by |-> by]

Emit(evts, st, by) ==
    IF req.hasCallback THEN Append(evts, Delivered(st, by)) ELSE evts

\* status.update({...}) keeps the keys it does not name
Update(st, stage, success) == [st EXCEPT !.stage = stage, !.success = success]
UpdateStage(st, stage) == [st EXCEPT !.stage = stage]

----------------------------------------------------------------------------
(* BrowserAutomation session: initialize() and close() *)

ClosedEngine == [initialized |-> FALSE, browser |-> FALSE, context |-> FALSE,
                 page |-> FALSE, playwright |-> FALSE]

InitFailures == {"none", "start", "type", "launch", "context", "page"}
CloseFailures == {"none", "loop_closed", "other"}

\* InitializeEngine without the "already initialized" return
InitializeEngine_AlwaysLaunches(e, failAt) ==
    IF FALSE
    THEN [eng |-> e, raised |-> FALSE, launched |-> {}]
    ELSE CASE failAt = "start"   -> [eng |-> [e EXCEPT !.playwright = TRUE], raised |-> TRUE,
                                     launched |-> {}]
           [] failAt = "type"    -> [eng |-> [e EXCEPT !.playwright = TRUE], raised |-> TRUE,
                                     launched |-> {}]
           [] failAt = "launch"  -> [eng |-> [e EXCEPT !.playwright = TRUE], raised |-> TRUE,
                                     launched |-> {}]
           [] failAt = "context" -> [eng |-> [e EXCEPT !.playwright = TRUE, !.browser = TRUE],
                                     raised |-> TRUE, launched |-> {"browser"}]
           [] failAt = "page"    -> [eng |-> [e EXCEPT !.playwright = TRUE, !.browser = TRUE,
                                                       !.context = TRUE],
                                     raised |-> TRUE, launched |-> {"browser", "context"}]
           [] OTHER              -> [eng |-> [initialized |-> TRUE, browser |-> TRUE,
                                              context |-> TRUE, page |-> TRUE,
                                              playwright |-> TRUE],
                                     raised |-> FALSE,
                                     launched |-> {"browser", "context", "page"}]

\* initialize(): returns the new fields, whether it raised, and which of
\* browser, context and page it launched.
InitializeEngine(e, failAt) ==
    IF e.initialized /\ e.browser
    THEN [eng |-> e, raised |-> FALSE, launched |-> {}]
    ELSE CASE failAt = "start"   -> [eng |-> [e EXCEPT !.playwright = TRUE], raised |-> TRUE,
                                     launched |-> {}]
           [] failAt = "type"    -> [eng |-> [e EXCEPT !.playwright = TRUE], raised |-> TRUE,
                                     launched |-> {}]
           [] failAt = "launch"  -> [eng |-> [e EXCEPT !.playwright = TRUE], raised |-> TRUE,
                                     launched |-> {}]
           [] failAt = "context" -> [eng |-> [e EXCEPT !.playwright = TRUE, !.browser = TRUE],
                                     raised |-> TRUE, launched |-> {"browser"}]
           [] failAt = "page"    -> [eng |-> [e EXCEPT !.playwright = TRUE, !.browser = TRUE,
                                                       !.context = TRUE],
                                     raised |-> TRUE, launched |-> {"browser", "context"}]
           [] OTHER              -> [eng |-> [initialized |-> TRUE, browser |-> TRUE,
                                              context |-> TRUE, page |-> TRUE,
                                              playwright |-> TRUE],
                                     raised |-> FALSE,
                                     launched |-> {"browser", "context", "page"}]

\* close(): page, context and browser are closed best-effort; a failure of the
\* driver's __aexit__ leaves the remaining fields as they were.
CloseEngine(e, failure) ==
    IF ~e.initialized
    THEN [eng |-> e, raised |-> FALSE]
    ELSE IF e.playwright /\ failure # "none"
         THEN [eng |-> [e EXCEPT !.browser = FALSE], raised |-> (failure = "other")]
         ELSE [eng |-> ClosedEngine, raised |-> FALSE]

----------------------------------------------------------------------------
(* Dispatch rules *)

\* ResolveMethod with the missing-prompt branch falling through to automation
ResolveMethod_NoPromptAutomates(hasOauth, m, hasPrompt, choice) ==
    IF hasOauth /\ m = "none"
    THEN IF hasPrompt
         THEN CASE choice = "manual_browser"      -> [abort |-> "none", method |-> "system_browser"]
                [] choice = "continue_automation" -> [abort |-> "none", method |-> "playwright"]
                [] OTHER                          -> [abort |-> "user_cancelled", method |-> m]
         ELSE [abort |-> "none", method |-> "playwright"]
    ELSE [abort |-> "none", method |-> m]

\* app_core.py 305-340: what AppCore does with the precheck result.
\* Returns the google_login_method to continue with, or the stage to abort with.
ResolveMethod(hasOauth, m, hasPrompt, choice) ==
    IF hasOauth /\ m = "none"
    THEN IF hasPrompt
         THEN CASE choice = "manual_browser"      -> [abort |-> "none", method |-> "system_browser"]
                [] choice = "continue_automation" -> [abort |-> "none", method |-> "playwright"]
                [] OTHER                          -> [abort |-> "user_cancelled", method |-> m]
         ELSE [abort |-> "prompt_missing", method |-> m]
    ELSE [abort |-> "none", method |-> m]

\* browser_automation.py 1482: the engine repeats the precheck
NeedsPrecheck(forcePrompt, m) == ~forcePrompt /\ m = "none"

\* SelectStrategy with the two branches exchanged
SelectStrategy_Swapped(hasOauth, m) ==
    IF hasOauth \/ m = "playwright" THEN "Form" ELSE "OAuth"

\* browser_automation.py 1490-1495
SelectStrategy(hasOauth, m) ==
    IF hasOauth \/ m = "playwright" THEN "OAuth" ELSE "Form"

----------------------------------------------------------------------------
(* Initial state and attempt start *)

AttemptInit ==
    /\ req = NoRequest
    /\ pc = "idle"
    /\ method = "none"
    /\ acOauth = "unset"
    /\ engOauth = "unset"
    /\ promptChoice = "unasked"
    /\ status = NoStatus
    /\ events = << >>
    /\ ops = << >>
    /\ ran = {}
    /\ result = NoStatus
    /\ outcome = "idle"
    /\ eng = ClosedEngine
    /\ initCalls = 0
    /\ closeCalls = 0
    /\ engCalled = FALSE
    /\ sysOpens = 0
    /\ lastLogin = << >>
    /\ oauth = NoOauthLocals
    /\ formLocals = NoFormLocals

\* No function is being exercised on its own.
NoCall == [fn |-> "none"]

Init ==
    /\ AttemptInit
    /\ detectCall = NoCall
    /\ checkCall = NoCall
    /\ waitCall = NoCall
    /\ teardownCall = NoCall
    /\ sessionCall = NoCall
    /\ findCall = NoCall
    /\ precheckCall = NoCall
    /\ taskCall = NoCall
    /\ cliCall = NoCall

Idle == pc = "idle"

\* The prompt, the confirmation callback and the credential store are
\* arguments and collaborators of AppCore only; a strategy called directly
\* takes no google_login_method / force_prompt and reads no configuration.
WellFormed(r) ==
    /\ r.entry # "appcore" => (~r.hasPrompt /\ ~r.hasConfirm /\ r.cred = "stored")
    /\ r.entry = "manual" => (r.method = "none" /\ ~r.forcePrompt /\ r.delay = "number")

FirstStep(entry) ==
    CASE entry = "appcore" -> "ac_precheck"
      [] entry = "engine"  -> "eng_enter"
      [] OTHER             -> "manual_login"

\* A caller starts an attempt: AppCore.login_to_website_async(url, ...),
\* BrowserAutomation.login_to_website(url, ...) (AppCore._run_login_task,
\* CLI._login_command) or SystemBrowserLoginStrategy(engine).login(url, ...).
StartAttempt ==
    /\ UNCHANGED callVars
    /\ UNCHANGED formLocals
    /\ Idle
    /\ \E r \in Requests :
         /\ WellFormed(r)
         /\ req' = r
         /\ method' = r.method
         /\ pc' = FirstStep(r.entry)
    /\ outcome' = "running"
    /\ UNCHANGED <<acOauth, engOauth, promptChoice, status, events, ops, ran,
                   result, eng, initCalls, closeCalls, engCalled, sysOpens,
                   lastLogin, oauth>>

\* The attempt is over and its caller has the result (or the exception);
\* nothing of the attempt is kept but the engine's session.
AttemptOver ==
    /\ UNCHANGED callVars
    /\ pc = "done"
    /\ req' = NoRequest
    /\ pc' = "idle"
    /\ method' = "none"
    /\ acOauth' = "unset"
    /\ engOauth' = "unset"
    /\ promptChoice' = "unasked"
    /\ status' = NoStatus
    /\ events' = << >>
    /\ ops' = << >>
    /\ ran' = {}
    /\ result' = NoStatus
    /\ outcome' = "idle"
    /\ initCalls' = 0
    /\ closeCalls' = 0
    /\ engCalled' = FALSE
    /\ sysOpens' = 0
    /\ lastLogin' = << >>
    /\ oauth' = NoOauthLocals
    /\ formLocals' = NoFormLocals
    /\ UNCHANGED eng

\* BrowserAutomation.initialize() called by a client between attempts
\* (AppCore.initialize_async, CLI._login_command).
SessionInitialize ==
    /\ UNCHANGED callVars
    /\ UNCHANGED formLocals
    /\ Idle
    /\ \E f \in InitFailures : eng' = InitializeEngine(eng, f).eng
    /\ UNCHANGED <<req, pc, method, acOauth, engOauth, promptChoice, status,
                   events, ops, ran, result, outcome, initCalls, closeCalls,
                   engCalled, sysOpens, lastLogin, oauth>>

\* BrowserAutomation.close() called by a client between attempts.
SessionClose ==
    /\ UNCHANGED callVars
    /\ UNCHANGED formLocals
    /\ Idle
    /\ \E f \in CloseFailures : eng' = CloseEngine(eng, f).eng
    /\ UNCHANGED <<req, pc, method, acOauth, engOauth, promptChoice, status,
                   events, ops, ran, result, outcome, initCalls, closeCalls,
                   engCalled, sysOpens, lastLogin, oauth>>

----------------------------------------------------------------------------
(* AppCore.login_to_website_async *)

ErrorStatus == Status("error", "false", FALSE)

\* AppCoreExcept recording the error as a failed login
AppCoreExcept_Records ==
    /\ UNCHANGED callVars
    /\ UNCHANGED formLocals
    /\ pc = "ac_except"
    /\ events' = Emit(events, ErrorStatus, "AppCore")
    /\ result' = ErrorStatus
    /\ outcome' = "returned"
    /\ pc' = "done"
    /\ lastLogin' = Append(lastLogin, "false")
    /\ UNCHANGED <<req, method, acOauth, engOauth, promptChoice, status, ops,
                   ran, eng, initCalls, closeCalls, engCalled, sysOpens, oauth>>

\* app_core.py 369-379: the except clause builds an error status, hands it
\* to the callback and returns it.
AppCoreExcept ==
    /\ UNCHANGED callVars
    /\ UNCHANGED formLocals
    /\ pc = "ac_except"
    /\ events' = Emit(events, ErrorStatus, "AppCore")
    /\ result' = ErrorStatus
    /\ outcome' = "returned"
    /\ pc' = "done"
    /\ UNCHANGED <<req, method, acOauth, engOauth, promptChoice, status, ops,
                   ran, eng, initCalls, closeCalls, engCalled, sysOpens,
                   lastLogin, oauth>>

\* app_core.py 284-294: announce and run the precheck (plain HTTP, no browser)
AppCorePrecheck ==
    /\ UNCHANGED callVars
    /\ UNCHANGED formLocals
    /\ pc = "ac_precheck"
    /\ events' = Emit(events, Status("precheck_google_oauth", "unknown", FALSE), "AppCore")
    /\ \E found \in BOOLEAN : acOauth' = IF found THEN "yes" ELSE "no"
    /\ pc' = "ac_credentials"
    /\ UNCHANGED <<req, method, engOauth, promptChoice, status, ops, ran,
                   result, outcome, eng, initCalls, closeCalls, engCalled,
                   sysOpens, lastLogin, oauth>>

\* app_core.py 296-303: the engine object is created lazily (no launch), the
\* credential manager must exist, and the URL must have stored credentials.
AppCoreCredentials ==
    /\ UNCHANGED callVars
    /\ UNCHANGED formLocals
    /\ pc = "ac_credentials"
    /\ CASE req.cred = "uninitialized" ->
              /\ pc' = "ac_except"
              /\ UNCHANGED <<result, outcome>>
         [] req.cred = "missing" ->
              /\ result' = Status("absent", "false", FALSE)
              /\ outcome' = "returned"
              /\ pc' = "done"
         [] OTHER ->
              /\ pc' = "ac_prompt"
              /\ UNCHANGED <<result, outcome>>
    /\ UNCHANGED <<req, method, acOauth, engOauth, promptChoice, status,
                   events, ops, ran, eng, initCalls, closeCalls, engCalled,
                   sysOpens, lastLogin, oauth>>

\* app_core.py 305-340: ask the user when OAuth was detected and no method
\* was given; abort when there is nobody to ask.
AppCorePrompt ==
    /\ UNCHANGED callVars
    /\ UNCHANGED formLocals
    /\ pc = "ac_prompt"
    /\ \E answer \in PromptAnswers :
         LET asked == acOauth = "yes" /\ method = "none" /\ req.hasPrompt
             r == ResolveMethod(acOauth = "yes", method, req.hasPrompt, answer)
         IN  /\ promptChoice' = IF asked THEN answer ELSE promptChoice
             /\ method' = r.method
             /\ IF r.abort # "none"
                THEN /\ events' = Emit(events, Status(r.abort, "false", FALSE), "AppCore")
                     /\ result' = Status(r.abort, "false", FALSE)
                     /\ outcome' = "returned"
                     /\ pc' = "done"
                ELSE /\ pc' = "ac_manual"
                     /\ UNCHANGED <<events, result, outcome>>
    /\ UNCHANGED <<req, acOauth, engOauth, status, ops, ran, eng, initCalls,
                   closeCalls, engCalled, sysOpens, lastLogin, oauth>>

\* app_core.py 342-355: manual choice with a confirmation callback: open the
\* system browser, tell the caller, wait for the user's confirmation.
AppCoreManualHandoff ==
    /\ UNCHANGED callVars
    /\ UNCHANGED formLocals
    /\ pc = "ac_manual"
    /\ IF method = "system_browser" /\ req.hasConfirm
       THEN /\ sysOpens' = sysOpens + 1
            /\ events' = Emit(events, Status("manual_browser_opened", "unknown", FALSE), "AppCore")
       ELSE UNCHANGED <<sysOpens, events>>
    /\ pc' = "eng_enter"
    /\ UNCHANGED <<req, method, acOauth, engOauth, promptChoice, status, ops,
                   ran, result, outcome, eng, initCalls, closeCalls, engCalled,
                   lastLogin, oauth>>

\* app_core.py 364-368: record the result unless success is None, return it.
AppCoreFinish ==
    /\ UNCHANGED callVars
    /\ UNCHANGED formLocals
    /\ pc = "ac_finish"
    /\ lastLogin' = IF status.success # "unknown"
                    THEN Append(lastLogin, status.success)
                    ELSE lastLogin
    /\ result' = status
    /\ outcome' = "returned"
    /\ pc' = "done"
    /\ UNCHANGED <<req, method, acOauth, engOauth, promptChoice, status,
                   events, ops, ran, eng, initCalls, closeCalls, engCalled,
                   sysOpens, oauth>>

----------------------------------------------------------------------------
(* BrowserAutomation.login_to_website *)

ViaAppCore == req.entry = "appcore"

\* An exception leaves login_to_website (handle_async re-raises it as an
\* AppError): AppCore's except clause takes over, a direct caller sees it.
EngineRaises ==
    /\ pc' = IF ViaAppCore THEN "ac_except" ELSE "done"
    /\ outcome' = IF ViaAppCore THEN outcome ELSE "raised"
    /\ UNCHANGED result

\* login_to_website returns the strategy's status dict.
EngineReturns ==
    /\ pc' = IF ViaAppCore THEN "ac_finish" ELSE "done"
    /\ outcome' = IF ViaAppCore THEN outcome ELSE "returned"
    /\ result' = IF ViaAppCore THEN result ELSE status

\* browser_automation.py 1473-1475: "if not self._initialized: await self.initialize()"
EngineEnter ==
    /\ UNCHANGED callVars
    /\ UNCHANGED formLocals
    /\ pc = "eng_enter"
    /\ engCalled' = TRUE
    /\ IF eng.initialized
       THEN /\ pc' = "eng_dispatch"
            /\ UNCHANGED <<eng, initCalls, outcome, result>>
       ELSE \E f \in InitFailures :
              LET r == InitializeEngine(eng, f)
              IN  /\ eng' = r.eng
                  /\ initCalls' = initCalls + 1
                  /\ IF r.raised
                     THEN EngineRaises
                     ELSE /\ pc' = "eng_dispatch"
                          /\ UNCHANGED <<outcome, result>>
    /\ UNCHANGED <<req, method, acOauth, engOauth, promptChoice, status,
                   events, ops, ran, closeCalls, sysOpens, lastLogin, oauth>>

StrategyStart(s) == IF s = "OAuth" THEN "oauth_start" ELSE "form_start"

\* browser_automation.py 1477-1495: repeat the precheck unless a method or
\* force_prompt was given, then pick the strategy.
EngineDispatch ==
    /\ UNCHANGED callVars
    /\ UNCHANGED formLocals
    /\ pc = "eng_dispatch"
    /\ \E found \in BOOLEAN :
         LET checked == NeedsPrecheck(req.forcePrompt, method)
             has == checked /\ found
             s == SelectStrategy(has, method)
         IN  /\ engOauth' = IF checked THEN (IF found THEN "yes" ELSE "no") ELSE engOauth
             /\ ran' = ran \cup {s}
             /\ pc' = StrategyStart(s)
    /\ UNCHANGED <<req, method, acOauth, promptChoice, status, events, ops,
                   result, outcome, eng, initCalls, closeCalls, engCalled,
                   sysOpens, lastLogin, oauth>>

\* PostLoginStatus sent as an in-progress event
PostLoginStatus_Undecided == Status("post_login_delay", "unknown", FALSE)

PostLoginStatus == Status("post_login_delay", "true", FALSE)

\* browser_automation.py 1504-1526: float(config post_login_delay) is evaluated
\* for every result; after a success the delay event is sent, the engine
\* sleeps and closes the session, swallowing any failure of close().
EnginePostLogin ==
    /\ UNCHANGED callVars
    /\ UNCHANGED formLocals
    /\ pc = "eng_post"
    /\ IF req.delay = "text"
       THEN /\ EngineRaises
            /\ UNCHANGED <<events, eng, closeCalls>>
       ELSE IF status.success = "true"
            THEN /\ events' = Emit(events, PostLoginStatus, "Engine")
                 /\ \E f \in CloseFailures : eng' = CloseEngine(eng, f).eng
                 /\ closeCalls' = closeCalls + 1
                 /\ EngineReturns
            ELSE /\ EngineReturns
                 /\ UNCHANGED <<events, eng, closeCalls>>
    /\ UNCHANGED <<req, method, acOauth, engOauth, promptChoice, status, ops,
                   ran, initCalls, engCalled, sysOpens, lastLogin, oauth>>

----------------------------------------------------------------------------
(* Strategies: shared pieces *)

\* "self.page = await self.browser.get_page()": the session is launched here
\* when the engine holds no page.
GetPage(e, failAt) ==
    IF e.page
    THEN [eng |-> e, raised |-> FALSE, launched |-> FALSE]
    ELSE LET r == InitializeEngine(e, failAt)
         IN  [eng |-> r.eng, raised |-> r.raised \/ ~r.eng.page, launched |-> TRUE]

\* The strategy returns its status dict to login_to_website.
StrategyReturns(st) ==
    /\ status' = st
    /\ pc' = "eng_post"

\* An exception leaves strategy.login: login_to_website wraps it in LoginError.
StrategyRaises ==
    /\ EngineRaises
    /\ UNCHANGED status

----------------------------------------------------------------------------
(* SystemBrowserLoginStrategy.login *)

\* ManualStatus reporting a failed login instead of an undecided one
ManualStatus_DecidedFailure == Status("manual_login", "false", TRUE)

ManualStatus == Status("manual_login", "unknown", TRUE)

\* browser_automation.py 1065-1076, called on the strategy object itself
ManualLogin ==
    /\ UNCHANGED callVars
    /\ UNCHANGED formLocals
    /\ pc = "manual_login"
    /\ ran' = ran \cup {"Manual"}
    /\ sysOpens' = sysOpens + 1
    /\ status' = ManualStatus
    /\ events' = Emit(events, ManualStatus, "Manual")
    /\ result' = ManualStatus
    /\ outcome' = "returned"
    /\ pc' = "done"
    /\ UNCHANGED <<req, method, acOauth, engOauth, promptChoice, ops, eng,
                   initCalls, closeCalls, engCalled, lastLogin, oauth>>

----------------------------------------------------------------------------
(* FormLoginStrategy.login *)

\* FormStage announcing the submit phase under the stage of the fill phase
FormStage_RepeatsFilling(phase) ==
    CASE phase = "goto"            -> "navigating"
      [] phase = "detect"          -> "detecting_form"
      [] phase = "fill"            -> "filling_form"
      [] phase = "submit"          -> "filling_form"
      [] phase = "wait_navigation" -> "waiting_for_navigation"

\* Stage announced when a phase of the form login begins.
FormStage(phase) ==
    CASE phase = "goto"            -> "navigating"
      [] phase = "detect"          -> "detecting_form"
      [] phase = "fill"            -> "filling_form"
      [] phase = "submit"          -> "submitting"
      [] phase = "wait_navigation" -> "waiting_for_navigation"

\* status.update({"stage": ..., "message": ...}); callback(status)
Announce(st, stage) == UpdateStage(st, stage)

\* browser_automation.py 198-211
FormBegin ==
    /\ UNCHANGED callVars
    /\ UNCHANGED formLocals
    /\ pc = "form_start"
    /\ \E f \in InitFailures :
         LET g == GetPage(eng, f)
         IN  /\ eng' = g.eng
             /\ initCalls' = IF g.launched THEN initCalls + 1 ELSE initCalls
             /\ IF g.raised
                THEN /\ StrategyRaises
                     /\ UNCHANGED events
                ELSE /\ status' = Status(FormStage("goto"), "unknown", FALSE)
                     /\ events' = Emit(events, status', "Form")
                     /\ pc' = "form_goto"
                     /\ UNCHANGED <<outcome, result>>
    /\ UNCHANGED <<req, method, acOauth, engOauth, promptChoice, ops, ran,
                   closeCalls, engCalled, sysOpens, lastLogin, oauth>>

\* browser_automation.py 213-240: goto, then (best effort) wait for load
FormGoto ==
    /\ UNCHANGED callVars
    /\ UNCHANGED formLocals
    /\ pc = "form_goto"
    /\ ops' = Append(ops, "goto")
    /\ \E ok \in BOOLEAN :
         IF ok
         THEN /\ status' = Announce(status, FormStage("detect"))
              /\ events' = Emit(events, status', "Form")
              /\ pc' = "form_detect"
         ELSE /\ StrategyReturns(Update(status, "error", "false"))
              /\ UNCHANGED events
    /\ UNCHANGED <<req, method, acOauth, engOauth, promptChoice, ran, result,
                   outcome, eng, initCalls, closeCalls, engCalled, sysOpens,
                   lastLogin, oauth>>

\* What _detect_login_form can hand back: it raises, or it returns a dict in
\* which ambiguous is set whenever a field is missing (lines 1309-1315).
DetectOutcomes ==
    {d \in [raised : BOOLEAN, ambiguous : BOOLEAN, fields : BOOLEAN] :
        /\ d.raised => (~d.ambiguous /\ ~d.fields)
        /\ (~d.raised /\ ~d.fields) => d.ambiguous}

\* FormDetect going on to fill the form when the detection is ambiguous
FormDetect_FillsAnyway ==
    /\ UNCHANGED callVars
    /\ pc = "form_detect"
    /\ ops' = Append(ops, "detect")
    /\ \E d \in DetectOutcomes, cs \in CandidateLists :
         /\ formLocals' = [detected |-> ~d.raised, ambiguous |-> d.ambiguous,
                           fields |-> d.fields, all_candidates |-> cs,
                     form_candidates |-> "absent"]
         /\ CASE d.raised ->
                   /\ StrategyReturns(Update(status, "error", "false"))
                   /\ UNCHANGED events
              [] ~d.raised /\ ~d.ambiguous /\ ~d.fields ->
                   /\ StrategyReturns(Update(status, "error", "false"))
                   /\ UNCHANGED events
              [] OTHER ->
                   /\ status' = Announce(status, FormStage("fill"))
                   /\ events' = Emit(events, status', "Form")
                   /\ pc' = "form_fill"
    /\ UNCHANGED <<req, method, acOauth, engOauth, promptChoice, ran, result,
                   outcome, eng, initCalls, closeCalls, engCalled, sysOpens,
                   lastLogin, oauth>>

\* browser_automation.py 242-286
FormDetect ==
    /\ UNCHANGED callVars
    /\ pc = "form_detect"
    /\ ops' = Append(ops, "detect")
    /\ \E d \in DetectOutcomes, cs \in CandidateLists :
         /\ formLocals' = [detected |-> ~d.raised, ambiguous |-> d.ambiguous,
                           fields |-> d.fields, all_candidates |-> cs,
                     form_candidates |-> IF ~d.raised /\ d.ambiguous
                                         THEN cs ELSE "absent"]
         /\ CASE d.raised ->
                   /\ StrategyReturns(Update(status, "error", "false"))
                   /\ UNCHANGED events
              [] ~d.raised /\ d.ambiguous ->
                   /\ StrategyReturns(Update(status, "ambiguous_form", "false"))
                   /\ UNCHANGED events
              [] ~d.raised /\ ~d.ambiguous /\ ~d.fields ->
                   /\ StrategyReturns(Update(status, "error", "false"))
                   /\ UNCHANGED events
              [] OTHER ->
                   /\ status' = Announce(status, FormStage("fill"))
                   /\ events' = Emit(events, status', "Form")
                   /\ pc' = "form_fill"
    /\ UNCHANGED <<req, method, acOauth, engOauth, promptChoice, ran, result,
                   outcome, eng, initCalls, closeCalls, engCalled, sysOpens,
                   lastLogin, oauth>>

\* browser_automation.py 288-307
FormFill ==
    /\ UNCHANGED callVars
    /\ UNCHANGED formLocals
    /\ pc = "form_fill"
    /\ ops' = Append(ops, "fill")
    /\ \E ok \in BOOLEAN :
         IF ok
         THEN /\ status' = Announce(status, FormStage("submit"))
              /\ events' = Emit(events, status', "Form")
              /\ pc' = "form_submit"
         ELSE /\ StrategyReturns(Update(status, "error", "false"))
              /\ UNCHANGED events
    /\ UNCHANGED <<req, method, acOauth, engOauth, promptChoice, ran, result,
                   outcome, eng, initCalls, closeCalls, engCalled, sysOpens,
                   lastLogin, oauth>>

\* browser_automation.py 309-319
FormSubmit ==
    /\ UNCHANGED callVars
    /\ UNCHANGED formLocals
    /\ pc = "form_submit"
    /\ ops' = Append(ops, "submit")
    /\ \E ok \in BOOLEAN :
         IF ok
         THEN /\ pc' = "form_captcha"
              /\ UNCHANGED status
         ELSE StrategyReturns(Update(status, "error", "false"))
    /\ UNCHANGED <<req, method, acOauth, engOauth, promptChoice, events, ran,
                   result, outcome, eng, initCalls, closeCalls, engCalled,
                   sysOpens, lastLogin, oauth>>

\* _detect_captcha / _detect_two_factor are hooks ("override or mock as
\* needed"): a hook answers yes or no, or raises, which the strategy logs.
HookAnswers == {"yes", "no", "raised"}

\* browser_automation.py 321-334
FormCaptcha ==
    /\ UNCHANGED callVars
    /\ UNCHANGED formLocals
    /\ pc = "form_captcha"
    /\ ops' = Append(ops, "captcha_check")
    /\ \E a \in HookAnswers :
         IF a = "yes"
         THEN /\ StrategyReturns(Update(status, "captcha_detected", "false"))
              /\ events' = Emit(events, status', "Form")
         ELSE /\ pc' = "form_two_factor"
              /\ UNCHANGED <<status, events>>
    /\ UNCHANGED <<req, method, acOauth, engOauth, promptChoice, ran, result,
                   outcome, eng, initCalls, closeCalls, engCalled, sysOpens,
                   lastLogin, oauth>>

\* browser_automation.py 336-358
FormTwoFactor ==
    /\ UNCHANGED callVars
    /\ UNCHANGED formLocals
    /\ pc = "form_two_factor"
    /\ ops' = Append(ops, "two_factor_check")
    /\ \E a \in HookAnswers :
         IF a = "yes"
         THEN /\ StrategyReturns(Update(status, "two_factor_detected", "false"))
              /\ events' = Emit(events, status', "Form")
         ELSE /\ status' = Announce(status, FormStage("wait_navigation"))
              /\ events' = Emit(events, status', "Form")
              /\ pc' = "form_wait"
    /\ UNCHANGED <<req, method, acOauth, engOauth, promptChoice, ran, result,
                   outcome, eng, initCalls, closeCalls, engCalled, sysOpens,
                   lastLogin, oauth>>

\* browser_automation.py 360-365: a timeout is logged and ignored
FormWaitNavigation ==
    /\ UNCHANGED callVars
    /\ UNCHANGED formLocals
    /\ pc = "form_wait"
    /\ ops' = Append(ops, "wait_navigation")
    /\ pc' = "form_check"
    /\ UNCHANGED <<req, method, acOauth, engOauth, promptChoice, status,
                   events, ran, result, outcome, eng, initCalls, closeCalls,
                   engCalled, sysOpens, lastLogin, oauth>>

\* browser_automation.py 367-387: _check_login_success, final status, callback
FormCheck ==
    /\ UNCHANGED callVars
    /\ UNCHANGED formLocals
    /\ pc = "form_check"
    /\ ops' = Append(ops, "success_check")
    /\ \E f \in InitFailures, ok \in BOOLEAN :
         LET g == GetPage(eng, f)
         IN  /\ eng' = g.eng
             /\ initCalls' = IF g.launched THEN initCalls + 1 ELSE initCalls
             /\ IF g.raised
                THEN /\ StrategyRaises
                     /\ UNCHANGED events
                ELSE /\ StrategyReturns(IF ok THEN Update(status, "success", "true")
                                              ELSE Update(status, "error", "false"))
                     /\ events' = Emit(events, status', "Form")
                     /\ UNCHANGED <<outcome, result>>
    /\ UNCHANGED <<req, method, acOauth, engOauth, promptChoice, ran,
                   closeCalls, engCalled, sysOpens, lastLogin, oauth>>

----------------------------------------------------------------------------
(* GoogleOAuthStrategy.login *)

\* max_detection_attempts: first pass normal, second after the reload
MaxDetectionAttempts == 2

\* OAuthStage with the stages of the two waits exchanged
OAuthStage_TwoFactorFirst(phase) ==
    CASE phase = "goto"      -> "navigating"
      [] phase = "find"      -> "detecting_google_oauth"
      [] phase = "click"     -> "clicking_google_oauth"
      [] phase = "fill"      -> "filling_google_form"
      [] phase = "wait_auth" -> "waiting_for_2fa"
      [] phase = "two_factor" -> "waiting_for_google_auth"

\* Stage announced when a phase of the OAuth login begins.
OAuthStage(phase) ==
    CASE phase = "goto"      -> "navigating"
      [] phase = "find"      -> "detecting_google_oauth"
      [] phase = "click"     -> "clicking_google_oauth"
      [] phase = "fill"      -> "filling_google_form"
      [] phase = "wait_auth" -> "waiting_for_google_auth"
      [] phase = "two_factor" -> "waiting_for_2fa"

\* browser_automation.py 460-473
OAuthBegin ==
    /\ UNCHANGED callVars
    /\ UNCHANGED formLocals
    /\ pc = "oauth_start"
    /\ \E f \in InitFailures :
         LET g == GetPage(eng, f)
         IN  /\ eng' = g.eng
             /\ initCalls' = IF g.launched THEN initCalls + 1 ELSE initCalls
             /\ IF g.raised
                THEN /\ StrategyRaises
                     /\ UNCHANGED events
                ELSE /\ status' = Status(OAuthStage("goto"), "unknown", FALSE)
                     /\ events' = Emit(events, status', "OAuth")
                     /\ pc' = "oauth_goto"
                     /\ UNCHANGED <<outcome, result>>
    /\ UNCHANGED <<req, method, acOauth, engOauth, promptChoice, ops, ran,
                   closeCalls, engCalled, sysOpens, lastLogin, oauth>>

\* browser_automation.py 475-502
OAuthGoto ==
    /\ UNCHANGED callVars
    /\ UNCHANGED formLocals
    /\ pc = "oauth_goto"
    /\ ops' = Append(ops, "goto")
    /\ \E ok \in BOOLEAN :
         IF ok
         THEN /\ status' = Announce(status, OAuthStage("find"))
              /\ events' = Emit(events, status', "OAuth")
              /\ pc' = "oauth_find"
         ELSE /\ StrategyReturns(Update(status, "error", "false"))
              /\ UNCHANGED events
    /\ UNCHANGED <<req, method, acOauth, engOauth, promptChoice, ran, result,
                   outcome, eng, initCalls, closeCalls, engCalled, sysOpens,
                   lastLogin, oauth>>

FindOutcomes == {"found", "not_found", "raised", "reload_failed"}

\* browser_automation.py 544-684: one iteration of the detection loop (the
\* selectors, the XPath search, the broad scan and the frame scan), the
\* delay + user-agent + reload after a first empty pass, and the exit of the
\* loop.
OAuthFindPass ==
    /\ UNCHANGED callVars
    /\ UNCHANGED formLocals
    /\ pc = "oauth_find"
    /\ oauth.attempts < MaxDetectionAttempts
    /\ \E o \in FindOutcomes :
         /\ o = "reload_failed" => oauth.attempts = 0
         /\ CASE o = "found" ->
                   /\ ops' = Append(ops, "find_pass")
                   /\ status' = Announce(status, OAuthStage("click"))
                   /\ events' = Emit(events, status', "OAuth")
                   /\ pc' = "oauth_click"
                   /\ UNCHANGED oauth
              [] o = "raised" ->
                   /\ ops' = Append(ops, "find_pass")
                   /\ StrategyReturns(Update(status, "error", "false"))
                   /\ UNCHANGED <<events, oauth>>
              [] o = "reload_failed" ->
                   /\ ops' = ops \o <<"find_pass", "reload">>
                   /\ StrategyReturns(Update(status, "error", "false"))
                   /\ oauth' = [oauth EXCEPT !.reloads = @ + 1]
                   /\ UNCHANGED events
              [] OTHER ->
                   /\ ops' = IF oauth.attempts = 0
                             THEN ops \o <<"find_pass", "reload">>
                             ELSE Append(ops, "find_pass")
                   /\ oauth' = [oauth EXCEPT
                                  !.attempts = @ + 1,
                                  !.reloads = IF oauth.attempts = 0 THEN @ + 1 ELSE @]
                   /\ IF oauth.attempts + 1 < MaxDetectionAttempts
                      THEN /\ pc' = "oauth_find"
                           /\ UNCHANGED status
                      ELSE StrategyReturns(Update(status, "error", "false"))
                   /\ UNCHANGED events
    /\ UNCHANGED <<req, method, acOauth, engOauth, promptChoice, ran, result,
                   outcome, eng, initCalls, closeCalls, engCalled, sysOpens,
                   lastLogin>>

\* browser_automation.py 686-735: overlays, native click, script click, retry
OAuthClick ==
    /\ UNCHANGED callVars
    /\ UNCHANGED formLocals
    /\ pc = "oauth_click"
    /\ ops' = Append(ops, "click")
    /\ \E ok \in BOOLEAN :
         IF ok
         THEN /\ pc' = "oauth_popup"
              /\ UNCHANGED status
         ELSE StrategyReturns(Update(status, "error", "false"))
    /\ UNCHANGED <<req, method, acOauth, engOauth, promptChoice, events, ran,
                   result, outcome, eng, initCalls, closeCalls, engCalled,
                   sysOpens, lastLogin, oauth>>

Provider == "accounts.google.com"

\* where the click can lead: the provider's sign-in page, a page of another
\* host whose query names the provider, a host whose name begins with the
\* provider's, a page that has nothing of the provider
LandingUrls ==
    { [host |-> "accounts.google.com", rest |-> "/signin"],
      [host |-> "site.example", rest |-> "/sso?continue=accounts.google.com"],
      [host |-> "accounts.google.com.idp.example", rest |-> "/signin"],
      [host |-> "site.example", rest |-> "/"] }

\* the parts of a URL in which "accounts.google.com" occurs as a substring
HoldsProvider(part) ==
    part \in {"accounts.google.com", "accounts.google.com.idp.example",
              "/sso?continue=accounts.google.com"}

\* browser_automation.py 764-765: "accounts.google.com" in current_url
OnProviderCheck(url) == HoldsProvider(url.host) \/ HoldsProvider(url.rest)

\* browser_automation.py 737-781: popup or same-page navigation, then the
\* check that the active page is on accounts.google.com.
OAuthPopup ==
    /\ UNCHANGED callVars
    /\ UNCHANGED formLocals
    /\ pc = "oauth_popup"
    /\ ops' = Append(ops, "await_popup")
    /\ \E popup \in BOOLEAN, url \in LandingUrls :
         /\ oauth' = [oauth EXCEPT !.activePage = IF popup THEN "popup" ELSE "main",
                                   !.popup = popup,
                                   !.landed = url]
         /\ IF OnProviderCheck(url)
            THEN /\ status' = Announce(status, OAuthStage("fill"))
                 /\ events' = Emit(events, status', "OAuth")
                 /\ pc' = "oauth_fill"
            ELSE /\ StrategyReturns(Update(status, "error", "false"))
                 /\ UNCHANGED events
    /\ UNCHANGED <<req, method, acOauth, engOauth, promptChoice, ran, result,
                   outcome, eng, initCalls, closeCalls, engCalled, sysOpens,
                   lastLogin>>

\* browser_automation.py 783-867: email, Next, password, Next
OAuthFill ==
    /\ UNCHANGED callVars
    /\ UNCHANGED formLocals
    /\ pc = "oauth_fill"
    /\ oauth' = [oauth EXCEPT !.pages = Append(@, [step |-> "fill", page |-> oauth.activePage])]
    /\ ops' = Append(ops, "fill_credentials")
    /\ \E ok \in BOOLEAN :
         IF ok
         THEN /\ status' = Announce(status, OAuthStage("wait_auth"))
              /\ events' = Emit(events, status', "OAuth")
              /\ pc' = "oauth_wait"
         ELSE /\ StrategyReturns(Update(status, "error", "false"))
              /\ UNCHANGED events
    /\ UNCHANGED <<req, method, acOauth, engOauth, promptChoice, ran, result,
                   outcome, eng, initCalls, closeCalls, engCalled, sysOpens,
                   lastLogin>>

AuthWaitOutcomes == {"left_google", "google_error", "two_factor", "still_google"}

\* browser_automation.py 869-905: wait, then look at where the page is
OAuthAuthWait ==
    /\ UNCHANGED callVars
    /\ UNCHANGED formLocals
    /\ pc = "oauth_wait"
    /\ oauth' = [oauth EXCEPT !.pages = Append(@, [step |-> "two_factor_detection", page |-> oauth.activePage])]
    /\ ops' = Append(ops, "wait_auth")
    /\ \E o \in AuthWaitOutcomes :
         CASE o = "google_error" ->
                /\ StrategyReturns(Update(status, "error", "false"))
                /\ UNCHANGED events
           [] o = "two_factor" ->
                /\ status' = Update(status, OAuthStage("two_factor"), "unknown")
                /\ events' = Emit(events, status', "OAuth")
                /\ pc' = "oauth_two_factor"
           [] OTHER ->
                /\ pc' = "oauth_check"
                /\ UNCHANGED <<status, events>>
    /\ UNCHANGED <<req, method, acOauth, engOauth, promptChoice, ran, result,
                   outcome, eng, initCalls, closeCalls, engCalled, sysOpens,
                   lastLogin>>

\* wait_for_user_action polls the engine's own _page (1541-1547), the page
\* the session was launched with
EnginePage == "main"

TwoFactorOutcomes == {"left_google", "still_google", "wait_raised"}

\* OAuthTwoFactorWait without the "still on Google sign-in page" return
OAuthTwoFactorWait_NoStillCheck ==
    /\ UNCHANGED callVars
    /\ UNCHANGED formLocals
    /\ pc = "oauth_two_factor"
    /\ ops' = Append(ops, "wait_user_action")
    /\ \E o \in TwoFactorOutcomes, on \in BOOLEAN :
         /\ o = "still_google" => on
         /\ o = "left_google" => ~on
         /\ oauth' = [oauth EXCEPT
                        !.pages = Append(@, [step |-> "user_action_wait",
                                             page |-> EnginePage]),
                        !.waitEnd = [how |-> IF o = "wait_raised" THEN "raised"
                                             ELSE "returned",
                                     onProvider |-> on]]
         /\ pc' = "oauth_check"
         /\ UNCHANGED status
    /\ UNCHANGED <<req, method, acOauth, engOauth, promptChoice, events, ran,
                   result, outcome, eng, initCalls, closeCalls, engCalled,
                   sysOpens, lastLogin>>

\* browser_automation.py 907-921: the shared user-action wait, then the
\* check that self.page left the provider; an exception of the wait is logged
\* and ignored, wherever self.page is at that moment.
OAuthTwoFactorWait ==
    /\ UNCHANGED callVars
    /\ UNCHANGED formLocals
    /\ pc = "oauth_two_factor"
    /\ ops' = Append(ops, "wait_user_action")
    /\ \E o \in TwoFactorOutcomes, on \in BOOLEAN :
         /\ o = "still_google" => on
         /\ o = "left_google" => ~on
         /\ oauth' = [oauth EXCEPT
                        !.pages = Append(@, [step |-> "user_action_wait",
                                             page |-> EnginePage]),
                        !.waitEnd = [how |-> IF o = "wait_raised" THEN "raised"
                                             ELSE "returned",
                                     onProvider |-> on]]
         /\ IF o = "still_google"
            THEN StrategyReturns(Update(status, "error", "false"))
            ELSE /\ pc' = "oauth_check"
                 /\ UNCHANGED status
    /\ UNCHANGED <<req, method, acOauth, engOauth, promptChoice, events, ran,
                   result, outcome, eng, initCalls, closeCalls, engCalled,
                   sysOpens, lastLogin>>

\* browser_automation.py 923-950: final wait, _check_login_success (which
\* takes the page from the engine again), final status, callback
OAuthCheck ==
    /\ UNCHANGED callVars
    /\ UNCHANGED formLocals
    /\ pc = "oauth_check"
    /\ ops' = Append(ops, "success_check")
    /\ \E f \in InitFailures, ok \in BOOLEAN :
         LET g == GetPage(eng, f)
         IN  /\ eng' = g.eng
             /\ initCalls' = IF g.launched THEN initCalls + 1 ELSE initCalls
             /\ oauth' = [oauth EXCEPT
                            !.activePage = "main",
                            !.pages = Append(@, [step |-> "success_check", page |-> "main"])]
             /\ IF g.raised
                THEN /\ StrategyRaises
                     /\ UNCHANGED events
                ELSE /\ StrategyReturns(IF ok THEN Update(status, "success", "true")
                                              ELSE Update(status, "error", "false"))
                     /\ events' = Emit(events, status', "OAuth")
                     /\ UNCHANGED <<outcome, result>>
    /\ UNCHANGED <<req, method, acOauth, engOauth, promptChoice, ran,
                   closeCalls, engCalled, sysOpens, lastLogin>>

----------------------------------------------------------------------------
(* Specification *)

Next ==
    \/ StartAttempt
    \/ AttemptOver
    \/ SessionInitialize
    \/ SessionClose
    \/ AppCorePrecheck
    \/ AppCoreCredentials
    \/ AppCorePrompt
    \/ AppCoreManualHandoff
    \/ AppCoreFinish
    \/ AppCoreExcept
    \/ EngineEnter
    \/ EngineDispatch
    \/ EnginePostLogin
    \/ ManualLogin
    \/ FormBegin
    \/ FormGoto
    \/ FormDetect
    \/ FormFill
    \/ FormSubmit
    \/ FormCaptcha
    \/ FormTwoFactor
    \/ FormWaitNavigation
    \/ FormCheck
    \/ OAuthBegin
    \/ OAuthGoto
    \/ OAuthFindPass
    \/ OAuthClick
    \/ OAuthPopup
    \/ OAuthFill
    \/ OAuthAuthWait
    \/ OAuthTwoFactorWait
    \/ OAuthCheck

Spec == Init /\ [][Next]_vars

----------------------------------------------------------------------------
(* BrowserAutomation._detect_login_form *)

\* Scores are counted in half points: 2 is 4, 1.5 is 3, 1.0 is 2, 0.5 is 1.
SubmitBonus == 1
ProximityBonus == 2
ProximityReach == 2
AmbiguityMargin == 2
ConfidenceFloor == 5

\* An <input> element: its type attribute ("" when it has none) and, for the
\* label text, the placeholder and the name, the keywords the lower-cased
\* text contains.
Input(type, label, placeholder, name) ==
    [type |-> type, label |-> label, placeholder |-> placeholder, name |-> name]

InputKinds ==
    { Input("", {}, {}, {"email"}),
      Input("text", {}, {}, {}),
      Input("email", {"user"}, {"email"}, {"login"}),
      Input("password", {}, {}, {}),
      Input("password", {"pass"}, {}, {"login"}) }

MaxForms == 2
MaxPageInputs == 4

SeqsUpTo(S, n) == UNION {[1..k -> S] : k \in 0..n}

\* A page: its <form> elements in document order, each with its inputs and
\* whether "button[type='submit'], input[type='submit']" matches inside it,
\* followed by the inputs that are in no form.  cuts[k] is the position in
\* `all` of the last input of form k.
MakePage(all, cuts, submit) ==
    LET n == Len(cuts)
        first(k) == IF k = 1 THEN 1 ELSE cuts[k - 1] + 1
    IN  [forms |-> [k \in 1..n |-> [inputs |-> SubSeq(all, first(k), cuts[k]),
                                    submit |-> submit[k]]],
         loose |-> SubSeq(all, IF n = 0 THEN 1 ELSE cuts[n] + 1, Len(all))]

\* An element handle: form 0 is "in no form".
Field(k, j) == [form |-> k, index |-> j]
NoField == Field(0, 0)
FieldAt(page, f) ==
    IF f.form = 0 THEN page.loose[f.index] ELSE page.forms[f.form].inputs[f.index]

\* ScoreField with a password-typed input worth 1.5 instead of 2
ScoreField_WeakPasswordType(f, fieldType) ==
    LET Has(w) == w \in f.label \/ w \in f.placeholder \/ w \in f.name
    IN  (IF fieldType = "username" /\ Has("user") THEN 4 ELSE 0)
      + (IF fieldType = "username" /\ Has("email") THEN 4 ELSE 0)
      + (IF fieldType = "username" /\ f.type = "email" THEN 3 ELSE 0)
      + (IF fieldType = "password" /\ Has("pass") THEN 4 ELSE 0)
      + (IF fieldType = "password" /\ f.type = "password" THEN 3 ELSE 0)
      + (IF Has("login") THEN 1 ELSE 0)

\* browser_automation.py 1222-1249
ScoreField(f, fieldType) ==
    LET Has(w) == w \in f.label \/ w \in f.placeholder \/ w \in f.name
    IN  (IF fieldType = "username" /\ Has("user") THEN 4 ELSE 0)
      + (IF fieldType = "username" /\ Has("email") THEN 4 ELSE 0)
      + (IF fieldType = "username" /\ f.type = "email" THEN 3 ELSE 0)
      + (IF fieldType = "password" /\ Has("pass") THEN 4 ELSE 0)
      + (IF fieldType = "password" /\ f.type = "password" THEN 4 ELSE 0)
      + (IF Has("login") THEN 1 ELSE 0)

RECURSIVE Concat(_)
Concat(ss) == IF ss = << >> THEN << >> ELSE Head(ss) \o Concat(Tail(ss))

\* positions of the inputs whose type is one of the given ones, in order
Positions(inputs, types) ==
    SelectSeq([i \in 1..Len(inputs) |-> i], LAMBDA i : inputs[i].type \in types)

Distance(i, j) == IF i >= j THEN i - j ELSE j - i

\* FormCandidates with the "login" bonus counted once for the pair
FormCandidates_LoginOncePerPair(page, k) ==
    LET form == page.forms[k]
        us == Positions(form.inputs, {"text", "email"})
        ps == Positions(form.inputs, {"password"})
        Login(f) == ScoreField(f, "none")
        Pair(u, p) ==
            [form |-> k,
             username_field |-> Field(k, u),
             password_field |-> Field(k, p),
             score |-> ScoreField(form.inputs[u], "username")
                       + ScoreField(form.inputs[p], "password")
                       - (IF Login(form.inputs[u]) + Login(form.inputs[p]) = 2
                          THEN 1 ELSE 0)
                       + (IF Distance(u, p) <= ProximityReach THEN ProximityBonus ELSE 0)
                       + (IF form.submit THEN SubmitBonus ELSE 0)]
    IN  Concat([a \in 1..Len(us) |-> [b \in 1..Len(ps) |-> Pair(us[a], ps[b])]])

\* browser_automation.py 1252-1285: the candidates of one form
FormCandidates(page, k) ==
    LET form == page.forms[k]
        us == Positions(form.inputs, {"text", "email"})
        ps == Positions(form.inputs, {"password"})
        Pair(u, p) ==
            [form |-> k,
             username_field |-> Field(k, u),
             password_field |-> Field(k, p),
             score |-> ScoreField(form.inputs[u], "username")
                       + ScoreField(form.inputs[p], "password")
                       + (IF Distance(u, p) <= ProximityReach THEN ProximityBonus ELSE 0)
                       + (IF form.submit THEN SubmitBonus ELSE 0)]
    IN  Concat([a \in 1..Len(us) |-> [b \in 1..Len(ps) |-> Pair(us[a], ps[b])]])

\* every input of the page, as page.query_selector_all finds them
PageFields(page) ==
    Concat([k \in 1..Len(page.forms) |->
                [j \in 1..Len(page.forms[k].inputs) |-> Field(k, j)]])
    \o [j \in 1..Len(page.loose) |-> Field(0, j)]

\* browser_automation.py 1288-1302: page-level search when no form gave a pair
PageCandidates(page) ==
    LET all == PageFields(page)
        us == SelectSeq(all, LAMBDA f : FieldAt(page, f).type \in {"text", "email"})
        ps == SelectSeq(all, LAMBDA f : FieldAt(page, f).type = "password")
        Pair(u, p) ==
            [form |-> 0,
             username_field |-> u,
             password_field |-> p,
             score |-> ScoreField(FieldAt(page, u), "username")
                       + ScoreField(FieldAt(page, p), "password")
                       + ProximityBonus]
    IN  Concat([a \in 1..Len(us) |-> [b \in 1..Len(ps) |-> Pair(us[a], ps[b])]])

\* sorted(candidates, key=score, reverse=True): stable, highest score first
RECURSIVE InsertByScore(_, _)
InsertByScore(c, sorted) ==
    IF sorted = << >> THEN <<c>>
    ELSE IF c.score > Head(sorted).score THEN <<c>> \o sorted
    ELSE <<Head(sorted)>> \o InsertByScore(c, Tail(sorted))

RECURSIVE SortByScore(_)
SortByScore(cs) ==
    IF cs = << >> THEN << >>
    ELSE InsertByScore(cs[Len(cs)], SortByScore(SubSeq(cs, 1, Len(cs) - 1)))

NoCandidate == [form |-> 0, username_field |-> NoField, password_field |-> NoField,
                score |-> 0]

\* IsAmbiguous without the comparison of the two best scores
IsAmbiguous_NoMargin(candidates, best) ==
    IF best.username_field = NoField \/ best.password_field = NoField THEN TRUE
    ELSE best.score < ConfidenceFloor

\* browser_automation.py 1308-1315
IsAmbiguous(candidates, best) ==
    IF best.username_field = NoField \/ best.password_field = NoField THEN TRUE
    ELSE IF Len(candidates) > 1
            /\ Distance(candidates[1].score, candidates[2].score) < AmbiguityMargin THEN TRUE
    ELSE best.score < ConfidenceFloor

\* browser_automation.py 1183-1325
DetectLoginForm(page) ==
    LET inForms == Concat([k \in 1..Len(page.forms) |-> FormCandidates(page, k)])
        found == IF inForms = << >> THEN PageCandidates(page) ELSE inForms
        candidates == SortByScore(found)
        best == IF candidates = << >> THEN NoCandidate ELSE candidates[1]
    IN  [username_field |-> best.username_field,
         password_field |-> best.password_field,
         form |-> best.form,
         score |-> best.score,
         all_candidates |-> candidates,
         ambiguous |-> IsAmbiguous(candidates, best)]

NotDetected == [username_field |-> NoField, password_field |-> NoField, form |-> 0,
                score |-> 0, all_candidates |-> << >>, ambiguous |-> FALSE]

DetectInit ==
    /\ AttemptInit
    /\ \E all \in SeqsUpTo(InputKinds, MaxPageInputs), n \in 0..MaxForms :
         \E cuts \in [1..n -> 0..Len(all)], submit \in [1..n -> BOOLEAN] :
           /\ \A k \in 1..(n - 1) : cuts[k] <= cuts[k + 1]
           /\ detectCall = [fn |-> "detect", page |-> MakePage(all, cuts, submit),
                            returned |-> FALSE, result |-> NotDetected]
    /\ checkCall = NoCall
    /\ waitCall = NoCall
    /\ teardownCall = NoCall
    /\ sessionCall = NoCall
    /\ findCall = NoCall
    /\ precheckCall = NoCall
    /\ taskCall = NoCall
    /\ cliCall = NoCall

\* result = await self._detect_login_form() on the page being shown
DetectLoginFormCall ==
    /\ detectCall.fn = "detect"
    /\ ~detectCall.returned
    /\ detectCall' = [detectCall EXCEPT !.returned = TRUE,
                                        !.result = DetectLoginForm(detectCall.page)]
    /\ UNCHANGED <<attemptVars, checkCall, waitCall, teardownCall, sessionCall, findCall, cliCall, taskCall, precheckCall>>

DetectNext == DetectLoginFormCall

DetectSpec == DetectInit /\ [][DetectNext]_vars

----------------------------------------------------------------------------
(* FormLoginStrategy._check_login_success, as FormLoginStrategy.login calls it *)

Domains == {"site.example", "idp.example"}

\* A string as urlparse sees it: netloc is what follows "//" (after an
\* optional scheme), and is empty for a string without "//".
Text(authority, host, rest) == [authority |-> authority, host |-> host, rest |-> rest]
Netloc(s) == IF s.authority THEN s.host ELSE ""

\* "https://<host>/login"
LoginUrls == {Text(TRUE, h, "/login") : h \in Domains}

\* "alice", "alice@site.example", "//idp.example", "//site.example"
Usernames ==
    {Text(FALSE, "", "alice"), Text(FALSE, "", "alice@site.example")}
    \union {Text(TRUE, h, "") : h \in Domains}

\* page.url at the time of the check, and whether its lower-cased text holds
\* one of "login", "signin", "sign-in", "log-in"
CurrentUrls == [host : Domains, loginWord : BOOLEAN]

\* page.content(): raises, holds one of the error patterns, or neither
Contents == {"raises", "error_text", "clean"}

\* browser_automation.py 404-440, the page being available
CheckLoginSuccess(arg, current, content) ==
    IF Netloc(arg) # current.host THEN TRUE
    ELSE IF current.loginWord THEN FALSE
    ELSE content # "error_text"

CheckInit ==
    /\ AttemptInit
    /\ detectCall = NoCall
    /\ checkCall \in [fn : {"check"}, url : LoginUrls, username : Usernames,
                      current : CurrentUrls, content : Contents,
                      pageAvailable : BOOLEAN, outcome : {"pending"},
                      stage : {"waiting_for_navigation"}, success : {"unknown"}]
    /\ waitCall = NoCall
    /\ teardownCall = NoCall
    /\ sessionCall = NoCall
    /\ findCall = NoCall
    /\ precheckCall = NoCall
    /\ taskCall = NoCall
    /\ cliCall = NoCall

\* browser_automation.py 367-387: login() hands its username argument to
\* _check_login_success and turns the answer into the final status;
\* lines 400-402 raise when there is no page.
FormCheckLoginSuccess ==
    /\ checkCall.fn = "check"
    /\ checkCall.outcome = "pending"
    /\ IF ~checkCall.pageAvailable
       THEN checkCall' = [checkCall EXCEPT !.outcome = "raised"]
       ELSE LET ok == CheckLoginSuccess(checkCall.username, checkCall.current,
                                        checkCall.content)
            IN  checkCall' = [checkCall EXCEPT
                                 !.outcome = IF ok THEN "true" ELSE "false",
                                 !.stage = IF ok THEN "success" ELSE "error",
                                 !.success = IF ok THEN "true" ELSE "false"]
    /\ UNCHANGED <<attemptVars, detectCall, waitCall, teardownCall, sessionCall, findCall, cliCall, taskCall, precheckCall>>

CheckNext == FormCheckLoginSuccess

CheckSpec == CheckInit /\ [][CheckNext]_vars

----------------------------------------------------------------------------
(* BrowserAutomation.wait_for_user_action *)

\* Time is counted in half seconds, so that a timeout need not be a whole
\* number of poll intervals.  asyncio.sleep(1) takes one second; reading the
\* page takes no time.
PollInterval == 2
MaxTimeout == 5

PageUrls == {"https://site.example/login", "https://site.example/home"}
Titles == {"Sign in", "Welcome back", "LOGIN SUCCESS"}

\* title.lower()
LowerTitle(t) ==
    CASE t = "Sign in"       -> "sign in"
      [] t = "Welcome back"  -> "welcome back"
      [] t = "LOGIN SUCCESS" -> "login success"

\* "success" in s or "welcome" in s, for the lower-cased titles above
HasSuccessToken(s) == s \in {"welcome back", "login success"}

\* UserActionSeen looking at the URL only
UserActionSeen_UrlOnly(startUrl, url, title, titleRaises) ==
    url # startUrl

\* browser_automation.py 1553-1567: what one poll makes of the page
UserActionSeen(startUrl, url, title, titleRaises) ==
    \/ url # startUrl
    \/ ~titleRaises /\ HasSuccessToken(LowerTitle(title))

WaitInit ==
    /\ AttemptInit
    /\ detectCall = NoCall
    /\ checkCall = NoCall
    /\ waitCall \in [fn : {"wait"}, timeout : 0..MaxTimeout,
                     initialized : BOOLEAN, page : BOOLEAN,
                     url : PageUrls, title : Titles, titleRaises : BOOLEAN,
                     phase : {"called"}, startUrl : {"unset"}, clock : {0},
                     polls : {0}, newUrl : {"unread"}, newTitle : {"unread"},
                     pageChanged : {FALSE}, result : {FALSE}]
    /\ teardownCall = NoCall
    /\ sessionCall = NoCall
    /\ findCall = NoCall
    /\ precheckCall = NoCall
    /\ taskCall = NoCall
    /\ cliCall = NoCall

\* browser_automation.py 1542-1548: the session must be open; the clock
\* starts and the URL is remembered
WaitEnter ==
    /\ waitCall.fn = "wait"
    /\ waitCall.phase = "called"
    /\ IF ~waitCall.initialized \/ ~waitCall.page
       THEN waitCall' = [waitCall EXCEPT !.phase = "raised"]
       ELSE waitCall' = [waitCall EXCEPT !.phase = "polling",
                                         !.startUrl = waitCall.url]
    /\ UNCHANGED <<attemptVars, detectCall, checkCall, teardownCall, sessionCall, findCall, cliCall, taskCall, precheckCall>>

\* The user (or the site) changes what the page shows while the engine waits.
PageChanges ==
    /\ waitCall.fn = "wait"
    /\ waitCall.phase = "polling"
    /\ \E u \in PageUrls, t \in Titles, r \in BOOLEAN :
         /\ <<u, t, r>> # <<waitCall.url, waitCall.title, waitCall.titleRaises>>
         /\ waitCall' = [waitCall EXCEPT !.url = u, !.title = t, !.titleRaises = r,
                                         !.pageChanged = TRUE]
    /\ UNCHANGED <<attemptVars, detectCall, checkCall, teardownCall, sessionCall, findCall, cliCall, taskCall, precheckCall>>

\* browser_automation.py 1550-1567: one turn of the loop: sleep, then poll
WaitPoll ==
    /\ waitCall.fn = "wait"
    /\ waitCall.phase = "polling"
    /\ waitCall.clock < waitCall.timeout
    /\ LET seen == UserActionSeen(waitCall.startUrl, waitCall.url, waitCall.title,
                                  waitCall.titleRaises)
       IN  waitCall' = [waitCall EXCEPT
                           !.clock = waitCall.clock + PollInterval,
                           !.polls = waitCall.polls + 1,
                           !.newUrl = waitCall.url,
                           !.newTitle = IF waitCall.url # waitCall.startUrl
                                           \/ waitCall.titleRaises
                                        THEN "unread" ELSE waitCall.title,
                           !.phase = IF seen THEN "returned" ELSE "polling",
                           !.result = seen]
    /\ UNCHANGED <<attemptVars, detectCall, checkCall, teardownCall, sessionCall, findCall, cliCall, taskCall, precheckCall>>

\* browser_automation.py 1550, 1569-1570: the loop condition fails
WaitTimesOut ==
    /\ waitCall.fn = "wait"
    /\ waitCall.phase = "polling"
    /\ ~(waitCall.clock < waitCall.timeout)
    /\ waitCall' = [waitCall EXCEPT !.phase = "returned", !.result = FALSE]
    /\ UNCHANGED <<attemptVars, detectCall, checkCall, teardownCall, sessionCall, findCall, cliCall, taskCall, precheckCall>>

WaitNext ==
    \/ WaitEnter
    \/ PageChanges
    \/ WaitPoll
    \/ WaitTimesOut

WaitSpec == WaitInit /\ [][WaitNext]_vars

----------------------------------------------------------------------------
(* BrowserAutomation.close, step by step *)

StepFailures == {"none", "loop_closed", "other"}

\* which of page.close(), context.close(), browser.close() and the driver's
\* __aexit__ fail in one call of close(), and how: with the RuntimeError
\* "Event loop is closed" or with another exception
TeardownFailures == [page : StepFailures, context : StepFailures,
                     browser : StepFailures, driver : StepFailures]

OpenEngine == [initialized |-> TRUE, browser |-> TRUE, context |-> TRUE,
               page |-> TRUE, playwright |-> TRUE]

\* TeardownSteps with the browser closed before the page and the context
TeardownSteps_BrowserFirst(e) ==
    (IF e.browser THEN <<"browser">> ELSE << >>)
    \o (IF e.page THEN <<"page">> ELSE << >>)
    \o (IF e.context THEN <<"context">> ELSE << >>)
    \o (IF e.playwright THEN <<"driver">> ELSE << >>)

\* the steps close() attempts on the fields as they are
TeardownSteps(e) ==
    (IF e.page THEN <<"page">> ELSE << >>)
    \o (IF e.context THEN <<"context">> ELSE << >>)
    \o (IF e.browser THEN <<"browser">> ELSE << >>)
    \o (IF e.playwright THEN <<"driver">> ELSE << >>)

\* Teardown with every failure of the driver's __aexit__ raised
Teardown_LoopClosedRaises(e, f) ==
    IF ~e.initialized
    THEN [eng |-> e, raised |-> FALSE, attempted |-> << >>]
    ELSE IF e.playwright /\ f.driver # "none"
         THEN [eng |-> [e EXCEPT !.browser = FALSE],
               raised |-> TRUE,
               attempted |-> TeardownSteps(e)]
         ELSE [eng |-> ClosedEngine, raised |-> FALSE, attempted |-> TeardownSteps(e)]

\* browser_automation.py 1583-1639: the failures of the first three steps
\* are caught where they occur (1596, 1602, 1608); a failure of __aexit__
\* (1614) leaves the try block: the fields after it stay as they are, and
\* only "Event loop is closed" is suppressed (1631-1639).
Teardown(e, f) ==
    IF ~e.initialized
    THEN [eng |-> e, raised |-> FALSE, attempted |-> << >>]
    ELSE IF e.playwright /\ f.driver # "none"
         THEN [eng |-> [e EXCEPT !.browser = FALSE],
               raised |-> (f.driver = "other"),
               attempted |-> TeardownSteps(e)]
         ELSE [eng |-> ClosedEngine, raised |-> FALSE, attempted |-> TeardownSteps(e)]

MaxCloseCalls == 2

TeardownInit ==
    /\ AttemptInit
    /\ detectCall = NoCall
    /\ checkCall = NoCall
    /\ waitCall = NoCall
    /\ teardownCall = [fn |-> "close", eng |-> ClosedEngine, closes |-> << >>]
    /\ sessionCall = NoCall
    /\ findCall = NoCall
    /\ precheckCall = NoCall
    /\ taskCall = NoCall
    /\ cliCall = NoCall

\* await engine.initialize(): a close() after it is again a first close
TeardownInitialize ==
    /\ teardownCall.fn = "close"
    /\ \E f \in InitFailures :
         teardownCall' = [teardownCall EXCEPT
                             !.eng = InitializeEngine(teardownCall.eng, f).eng,
                             !.closes = << >>]
    /\ UNCHANGED <<attemptVars, detectCall, checkCall, waitCall, sessionCall,
                   findCall, cliCall, taskCall, precheckCall>>

\* await engine.close(), once more after the previous close()
TeardownClose ==
    /\ teardownCall.fn = "close"
    /\ Len(teardownCall.closes) < MaxCloseCalls
    /\ \E f \in TeardownFailures :
         LET c == Teardown(teardownCall.eng, f)
         IN  /\ \A step \in DOMAIN f :
                  f[step] # "none" => \E i \in 1..Len(c.attempted) : c.attempted[i] = step
             /\ teardownCall' = [teardownCall EXCEPT
                                     !.eng = c.eng,
                                     !.closes = Append(teardownCall.closes,
                                                       [before |-> teardownCall.eng,
                                                        failures |-> f,
                                                        attempted |-> c.attempted,
                                                        raised |-> c.raised])]
    /\ UNCHANGED <<attemptVars, detectCall, checkCall, waitCall, sessionCall,
                   findCall, cliCall, taskCall, precheckCall>>

TeardownNext ==
    \/ TeardownInitialize
    \/ TeardownClose

TeardownSpec == TeardownInit /\ [][TeardownNext]_vars

----------------------------------------------------------------------------
(* GoogleOAuthStrategy.login: the search for the sign-in control *)

\* the four steps of one pass, in the order the loop body runs them
LocatingStrategies == <<"selectors", "xpath", "scan", "frames">>

\* FirstMatch trying the frames before the page itself
FirstMatch_FramesFirst(matches) ==
    IF "frames" \in matches THEN "frames"
    ELSE IF "selectors" \in matches THEN "selectors"
    ELSE IF "xpath" \in matches THEN "xpath"
    ELSE IF "scan" \in matches THEN "scan"
    ELSE "none"

\* browser_automation.py 546-641: each step runs only "if not google_button"
\* and stops at its first visible element
FirstMatch(matches) ==
    IF "selectors" \in matches THEN "selectors"
    ELSE IF "xpath" \in matches THEN "xpath"
    ELSE IF "scan" \in matches THEN "scan"
    ELSE IF "frames" \in matches THEN "frames"
    ELSE "none"


StrategySet == {LocatingStrategies[i] : i \in 1..Len(LocatingStrategies)}

\* where an exception is thrown inside the loop's try block, if anywhere
FindFailures == {"none", "pass1", "reload", "pass2"}

\* visible[n] is the set of steps that would see a visible match on pass n
FindInit ==
    /\ AttemptInit
    /\ detectCall = NoCall
    /\ checkCall = NoCall
    /\ waitCall = NoCall
    /\ teardownCall = NoCall
    /\ sessionCall = NoCall
    /\ precheckCall = NoCall
    /\ taskCall = NoCall
    /\ cliCall = NoCall
    /\ \E m1 \in SUBSET StrategySet, m2 \in SUBSET StrategySet, f \in FindFailures :
         findCall = [fn |-> "find", visible |-> <<m1, m2>>, failure |-> f,
                     detection_attempts |-> 0, google_button |-> "none",
                     foundOnPass |-> 0, log |-> << >>, at |-> "loop",
                     stage |-> "detecting_google_oauth", success |-> "unknown"]

\* browser_automation.py 544-664: one iteration of the while loop
FindIteration ==
    /\ findCall.fn = "find"
    /\ findCall.at = "loop"
    /\ findCall.detection_attempts < MaxDetectionAttempts
    /\ LET n == findCall.detection_attempts + 1
           b == FirstMatch(findCall.visible[n])
           failed == [findCall EXCEPT !.at = "returned", !.stage = "error",
                                      !.success = "false"]
       IN  findCall' =
             IF findCall.failure = (IF n = 1 THEN "pass1" ELSE "pass2")
             THEN [failed EXCEPT !.log = Append(@, "pass")]
             ELSE IF b # "none"
             THEN [findCall EXCEPT !.google_button = b, !.foundOnPass = n,
                                   !.log = Append(@, "pass"), !.at = "found"]
             ELSE IF n = 1 /\ findCall.failure = "reload"
             THEN [failed EXCEPT !.log = @ \o <<"pass", "delay", "user_agent", "reload">>]
             ELSE [findCall EXCEPT
                      !.detection_attempts = n,
                      !.log = IF n = 1
                              THEN @ \o <<"pass", "delay", "user_agent", "reload">>
                              ELSE Append(@, "pass")]
    /\ UNCHANGED <<attemptVars, detectCall, checkCall, waitCall, teardownCall,
                   sessionCall, cliCall, taskCall, precheckCall>>

\* browser_automation.py 666-675: the loop ran out of attempts
FindGivesUp ==
    /\ findCall.fn = "find"
    /\ findCall.at = "loop"
    /\ findCall.detection_attempts >= MaxDetectionAttempts
    /\ findCall' = [findCall EXCEPT !.at = "returned", !.stage = "error",
                                    !.success = "false"]
    /\ UNCHANGED <<attemptVars, detectCall, checkCall, waitCall, teardownCall,
                   sessionCall, cliCall, taskCall, precheckCall>>

\* browser_automation.py 677-735: the control was found and is clicked
FindClicks ==
    /\ findCall.fn = "find"
    /\ findCall.at = "found"
    /\ findCall' = [findCall EXCEPT !.at = "clicked",
                                    !.stage = "clicking_google_oauth",
                                    !.log = Append(@, "click")]
    /\ UNCHANGED <<attemptVars, detectCall, checkCall, waitCall, teardownCall,
                   sessionCall, cliCall, taskCall, precheckCall>>

FindNext ==
    \/ FindIteration
    \/ FindGivesUp
    \/ FindClicks

FindSpec == FindInit /\ [][FindNext]_vars

----------------------------------------------------------------------------
(* BrowserAutomation: the session behind get_browser, get_context, get_page *)

Resources == {"browser", "context", "page"}

\* a handle is the number of the launch that made it; 0 stands for None
NoHandles == [r \in Resources |-> 0]

MaxLaunches == 2

\* the handles the fields hold after a call that launched `launched`
HandlesAfter(e, handles, counts, launched) ==
    [r \in Resources |-> IF r \in launched THEN counts[r] + 1
                         ELSE IF e[r] THEN handles[r] ELSE 0]

\* get_browser / get_context / get_page: "if not self._<r>: await
\* self.initialize()", then the field is returned
Accessor(e, r, failAt) ==
    IF e[r]
    THEN [eng |-> e, raised |-> FALSE, launched |-> {}]
    ELSE InitializeEngine(e, failAt)

\* BrowserAutomation(config_manager): every handle None, nothing launched
SessionInit ==
    /\ AttemptInit
    /\ detectCall = NoCall
    /\ checkCall = NoCall
    /\ waitCall = NoCall
    /\ teardownCall = NoCall
    /\ precheckCall = NoCall
    /\ taskCall = NoCall
    /\ cliCall = NoCall
    /\ findCall = NoCall
    /\ sessionCall = [fn |-> "session", eng |-> ClosedEngine, handles |-> NoHandles,
                      counts |-> NoHandles,
                      last |-> [op |-> "construct", resource |-> "none",
                                before |-> ClosedEngine, handles |-> NoHandles,
                                launched |-> {}, raised |-> FALSE, returned |-> 0]]

SessionStep(op, r, c) ==
    /\ c.launched = {} \/ sessionCall.counts.browser < MaxLaunches
    /\ LET h == HandlesAfter(c.eng, sessionCall.handles, sessionCall.counts, c.launched)
       IN  sessionCall' = [sessionCall EXCEPT
               !.eng = c.eng,
               !.handles = h,
               !.counts = [x \in Resources |->
                              IF x \in c.launched THEN @[x] + 1 ELSE @[x]],
               !.last = [op |-> op, resource |-> r, before |-> sessionCall.eng,
                         handles |-> sessionCall.handles, launched |-> c.launched,
                         raised |-> c.raised,
                         returned |-> IF c.raised \/ r = "none" THEN 0 ELSE h[r]]]
    /\ UNCHANGED <<attemptVars, detectCall, checkCall, waitCall, teardownCall,
                   findCall, cliCall, taskCall, precheckCall>>

\* await engine.get_browser() / get_context() / get_page()
SessionAccessor ==
    /\ sessionCall.fn = "session"
    /\ \E r \in Resources, f \in InitFailures :
         SessionStep("get", r, Accessor(sessionCall.eng, r, f))

\* await engine.initialize()
SessionInitializeCall ==
    /\ sessionCall.fn = "session"
    /\ \E f \in InitFailures :
         SessionStep("initialize", "none", InitializeEngine(sessionCall.eng, f))

\* await engine.close(): what page, context and browser answer to close()
\* changes no field, so only the driver's __aexit__ is drawn
SessionCloseCall ==
    /\ sessionCall.fn = "session"
    /\ \E d \in StepFailures :
         LET c == Teardown(sessionCall.eng,
                           [page |-> "none", context |-> "none",
                            browser |-> "none", driver |-> d])
         IN  SessionStep("close", "none",
                         [eng |-> c.eng, raised |-> c.raised, launched |-> {}])

SessionNext ==
    \/ SessionAccessor
    \/ SessionInitializeCall
    \/ SessionCloseCall

SessionSpec == SessionInit /\ [][SessionNext]_vars

----------------------------------------------------------------------------
(* CLI._login_command: the loop over the websites *)

MaxWebsites == 2

\* what answers loop.run_until_complete(...) in the command: the coroutine
\* returns, raises, or the operator presses Ctrl+C while it runs
LoginAnswers == {"success", "failure", "user_action", "raised", "interrupted"}
WaitAnswers == {"returned", "raised", "interrupted"}

OnlyDriver(d) == [page |-> "none", context |-> "none", browser |-> "none",
                  driver |-> d]

\* cli.py 314-320: the websites to log in to, a new engine
CliInit ==
    /\ AttemptInit
    /\ detectCall = NoCall
    /\ checkCall = NoCall
    /\ waitCall = NoCall
    /\ teardownCall = NoCall
    /\ sessionCall = NoCall
    /\ findCall = NoCall
    /\ precheckCall = NoCall
    /\ taskCall = NoCall
    /\ \E n \in 1..MaxWebsites :
         cliCall = [fn |-> "cli", n |-> n, i |-> 1, at |-> "init",
                    eng |-> ClosedEngine, attempted |-> {}, skipped |-> {},
                    recorded |-> {}, interrupted |-> FALSE, raised |-> FALSE,
                    atFinally |-> ClosedEngine, closeCalls |-> 0,
                    closeFailure |-> "none"]

\* the for loop goes to the next website, or ends
CliAdvance(c) ==
    IF c.i < c.n THEN [c EXCEPT !.i = @ + 1, !.at = "init"]
    ELSE [c EXCEPT !.at = "finally"]

\* the except KeyboardInterrupt clause around the loop
CliInterrupted(c) == [c EXCEPT !.at = "finally", !.interrupted = TRUE]

\* another exception leaves the loop through the finally clause
CliRaised(c) == [c EXCEPT !.at = "finally", !.raised = TRUE]

\* cli.py 329-332: "if not ... browser_automation.browser: initialize()"
CliInitialize ==
    /\ cliCall.fn = "cli"
    /\ cliCall.at = "init"
    /\ IF cliCall.eng.browser
       THEN cliCall' = [cliCall EXCEPT !.at = "login"]
       ELSE \E f \in InitFailures, interrupt \in BOOLEAN :
              LET r == InitializeEngine(cliCall.eng, f)
                  c == [cliCall EXCEPT !.eng = r.eng]
              IN  cliCall' = IF interrupt THEN CliInterrupted(c)
                             ELSE IF r.raised THEN CliRaised(c)
                             ELSE [c EXCEPT !.at = "login"]
    /\ UNCHANGED <<attemptVars, detectCall, checkCall, waitCall, teardownCall,
                   sessionCall, findCall, taskCall, precheckCall>>

\* cli.py 334-340: login_to_website; after a success the engine sleeps and
\* closes the session itself, swallowing a failure of close()
CliLogin ==
    /\ cliCall.fn = "cli"
    /\ cliCall.at = "login"
    /\ \E a \in LoginAnswers, d \in StepFailures :
         LET c == [cliCall EXCEPT !.attempted = @ \cup {cliCall.i}]
         IN  /\ a # "success" => d = "none"
             /\ cliCall' =
                  CASE a = "success" ->
                         [c EXCEPT !.eng = Teardown(cliCall.eng, OnlyDriver(d)).eng,
                                   !.at = "record"]
                    [] a = "failure" -> [c EXCEPT !.at = "record"]
                    [] a = "user_action" -> [c EXCEPT !.at = "wait"]
                    [] a = "raised" -> CliRaised(c)
                    [] OTHER -> CliInterrupted(c)
    /\ UNCHANGED <<attemptVars, detectCall, checkCall, waitCall, teardownCall,
                   sessionCall, findCall, taskCall, precheckCall>>

\* CliWait with Ctrl+C during the wait ending the whole command
CliWait_InterruptEndsCommand ==
    /\ cliCall.fn = "cli"
    /\ cliCall.at = "wait"
    /\ \E a \in WaitAnswers :
         cliCall' =
           CASE a = "returned" -> [cliCall EXCEPT !.at = "record"]
             [] a = "raised" -> CliRaised(cliCall)
             [] OTHER -> CliInterrupted([cliCall EXCEPT !.skipped = @ \cup {cliCall.i}])
    /\ UNCHANGED <<attemptVars, detectCall, checkCall, waitCall, teardownCall,
                   sessionCall, findCall, taskCall, precheckCall>>

\* cli.py 342-355: the user-action wait; Ctrl+C skips the website
CliWait ==
    /\ cliCall.fn = "cli"
    /\ cliCall.at = "wait"
    /\ \E a \in WaitAnswers :
         cliCall' =
           CASE a = "returned" -> [cliCall EXCEPT !.at = "record"]
             [] a = "raised" -> CliRaised(cliCall)
             [] OTHER -> CliAdvance([cliCall EXCEPT !.skipped = @ \cup {cliCall.i}])
    /\ UNCHANGED <<attemptVars, detectCall, checkCall, waitCall, teardownCall,
                   sessionCall, findCall, taskCall, precheckCall>>

\* cli.py 357-370: last login, result line
CliRecord ==
    /\ cliCall.fn = "cli"
    /\ cliCall.at = "record"
    /\ cliCall' = CliAdvance([cliCall EXCEPT !.recorded = @ \cup {cliCall.i}])
    /\ UNCHANGED <<attemptVars, detectCall, checkCall, waitCall, teardownCall,
                   sessionCall, findCall, taskCall, precheckCall>>

\* cli.py 374-378: "if ... browser_automation.browser: close()"
CliFinally ==
    /\ cliCall.fn = "cli"
    /\ cliCall.at = "finally"
    /\ IF cliCall.eng.browser
       THEN \E d \in StepFailures :
              LET t == Teardown(cliCall.eng, OnlyDriver(d))
              IN  /\ d # "none" => "driver" \in {t.attempted[k] : k \in 1..Len(t.attempted)}
                  /\ cliCall' = [cliCall EXCEPT
                                    !.atFinally = cliCall.eng,
                                    !.eng = t.eng,
                                    !.closeCalls = @ + 1,
                                    !.closeFailure = d,
                                    !.raised = @ \/ t.raised,
                                    !.at = "done"]
       ELSE cliCall' = [cliCall EXCEPT !.atFinally = cliCall.eng, !.at = "done"]
    /\ UNCHANGED <<attemptVars, detectCall, checkCall, waitCall, teardownCall,
                   sessionCall, findCall, taskCall, precheckCall>>

CliNext ==
    \/ CliInitialize
    \/ CliLogin
    \/ CliWait
    \/ CliRecord
    \/ CliFinally

CliSpec == CliInit /\ [][CliNext]_vars

----------------------------------------------------------------------------
(* AppCore.login_to_website: login tasks on the one engine *)

MaxTasks == 2

Tasks == 1..MaxTasks

\* the engine fields the tasks share: _initialized and _page; a page is the
\* number of the launch that made it, 0 stands for None
NoSharedEngine == [initialized |-> FALSE, page |-> 0]

NewTask == [pc |-> "idle", page |-> 0, result |-> "none"]

\* app_core.py 57, 79-97: one engine per AppCore, no task started
TaskInit ==
    /\ AttemptInit
    /\ detectCall = NoCall
    /\ checkCall = NoCall
    /\ waitCall = NoCall
    /\ teardownCall = NoCall
    /\ sessionCall = NoCall
    /\ findCall = NoCall
    /\ cliCall = NoCall
    /\ precheckCall = NoCall
    /\ taskCall = [fn |-> "tasks", eng |-> NoSharedEngine, launches |-> 0,
                   shows |-> 0, task |-> [t \in Tasks |-> NewTask]]

TaskStep(t, pcNew) == [taskCall EXCEPT !.task[t].pc = pcNew]

TaskFails(t) == [taskCall EXCEPT !.task[t].pc = "done", !.task[t].result = "error"]

\* app_core.py 398-432: the task is registered and its thread started
TaskStart(t) ==
    /\ taskCall.fn = "tasks"
    /\ taskCall.task[t].pc = "idle"
    /\ taskCall' = TaskStep(t, "entered")
    /\ UNCHANGED <<attemptVars, detectCall, checkCall, waitCall, teardownCall,
                   sessionCall, findCall, cliCall, precheckCall>>

\* browser_automation.py 1473-1475: "if not self._initialized"
TaskEnter(t) ==
    /\ taskCall.fn = "tasks"
    /\ taskCall.task[t].pc = "entered"
    /\ taskCall' = TaskStep(t, IF taskCall.eng.initialized THEN "strategy"
                               ELSE "initializing")
    /\ UNCHANGED <<attemptVars, detectCall, checkCall, waitCall, teardownCall,
                   sessionCall, findCall, cliCall, precheckCall>>

\* browser_automation.py 1419-1444: a browser, a context and a page are
\* launched and stored in the engine's fields
TaskInitialize(t) ==
    /\ taskCall.fn = "tasks"
    /\ taskCall.task[t].pc = "initializing"
    /\ taskCall' = [TaskStep(t, "strategy") EXCEPT
                       !.launches = @ + 1,
                       !.eng = [initialized |-> TRUE, page |-> taskCall.launches + 1],
                       !.shows = 0]
    /\ UNCHANGED <<attemptVars, detectCall, checkCall, waitCall, teardownCall,
                   sessionCall, findCall, cliCall, precheckCall>>

\* browser_automation.py 200-201, 215-217: the strategy takes self.page and
\* navigates it to the task's URL
TaskGoto(t) ==
    /\ taskCall.fn = "tasks"
    /\ taskCall.task[t].pc = "strategy"
    /\ taskCall' = IF taskCall.eng.page = 0
                   THEN TaskFails(t)
                   ELSE [TaskStep(t, "navigated") EXCEPT
                            !.task[t].page = taskCall.eng.page,
                            !.shows = t]
    /\ UNCHANGED <<attemptVars, detectCall, checkCall, waitCall, teardownCall,
                   sessionCall, findCall, cliCall, precheckCall>>

\* browser_automation.py 262-318: the credentials are typed into self.page
TaskFill(t) ==
    /\ taskCall.fn = "tasks"
    /\ taskCall.task[t].pc = "navigated"
    /\ taskCall' = IF taskCall.eng.page = 0
                   THEN TaskFails(t)
                   ELSE TaskStep(t, "filled")
    /\ UNCHANGED <<attemptVars, detectCall, checkCall, waitCall, teardownCall,
                   sessionCall, findCall, cliCall, precheckCall>>

\* browser_automation.py 1497-1526: the strategy returns; after a success
\* the engine is closed
TaskFinish(t) ==
    /\ taskCall.fn = "tasks"
    /\ taskCall.task[t].pc = "filled"
    /\ \E ok \in BOOLEAN :
         taskCall' = IF ok
                     THEN [TaskStep(t, "done") EXCEPT
                              !.task[t].result = "success",
                              !.eng = NoSharedEngine,
                              !.shows = 0]
                     ELSE [TaskStep(t, "done") EXCEPT !.task[t].result = "failed"]
    /\ UNCHANGED <<attemptVars, detectCall, checkCall, waitCall, teardownCall,
                   sessionCall, findCall, cliCall, precheckCall>>

TaskNext ==
    \E t \in Tasks :
        \/ TaskStart(t)
        \/ TaskEnter(t)
        \/ TaskInitialize(t)
        \/ TaskGoto(t)
        \/ TaskFill(t)
        \/ TaskFinish(t)

TaskSpec == TaskInit /\ [][TaskNext]_vars

----------------------------------------------------------------------------
(* precheck_google_oauth *)

\* Attribute values and element texts of the fetched page
Strings == {"https://accounts.google.com/o/oauth2/auth?client_id=1",
            "https://site.example/auth/google",
            "Sign in with Google",
            "CONTINUE WITH GOOGLE",
            "Google",
            "Sign in"}

\* str.lower()
Lower(v) ==
    CASE v = "Sign in with Google"  -> "sign in with google"
      [] v = "CONTINUE WITH GOOGLE" -> "continue with google"
      [] v = "Google"               -> "google"
      [] v = "Sign in"              -> "sign in"
      [] OTHER                      -> v

\* "accounts.google.com/o/oauth2" in v
HasOAuthPath(v) == v = "https://accounts.google.com/o/oauth2/auth?client_id=1"

\* any(pattern in v for pattern in google_text_patterns)
HasSignInPhrase(v) == v \in {"sign in with google", "continue with google"}

\* "google" in v (every google_class_patterns entry contains "google", and
\* "google" is one of them)
HasGoogle(v) == v \in {"https://accounts.google.com/o/oauth2/auth?client_id=1",
                       "https://site.example/auth/google",
                       "sign in with google", "continue with google", "google"}

Tags == {"a", "form", "button", "div", "span", "input"}
Attributes == {"href", "action", "text", "aria-label", "title", "class",
               "data-provider", "data-auth", "id"}

\* An element of the parsed page, with the one attribute (or its text) that
\* carries a value
Elements == [tag : Tags, attr : Attributes, value : Strings]

MaxElements == 1

ClickableTags == {"button", "a", "div", "span"}

\* browser_automation.py 60-64
HrefLayer(doc) ==
    \E i \in 1..Len(doc) :
        doc[i].tag = "a" /\ doc[i].attr = "href" /\ HasOAuthPath(doc[i].value)

\* browser_automation.py 67-71
ActionLayer(doc) ==
    \E i \in 1..Len(doc) :
        doc[i].tag = "form" /\ doc[i].attr = "action" /\ HasOAuthPath(doc[i].value)

\* TextLayer comparing the text as written
TextLayer_CaseSensitive(doc) ==
    \E i \in 1..Len(doc) :
        /\ doc[i].tag \in ClickableTags
        /\ doc[i].attr \in {"text", "aria-label", "title"}
        /\ HasSignInPhrase(doc[i].value)

\* browser_automation.py 84-104
TextLayer(doc) ==
    \E i \in 1..Len(doc) :
        /\ doc[i].tag \in ClickableTags
        /\ doc[i].attr \in {"text", "aria-label", "title"}
        /\ HasSignInPhrase(Lower(doc[i].value))

\* browser_automation.py 110-121
ClassLayer(doc) ==
    \E i \in 1..Len(doc) :
        /\ doc[i].tag \in ClickableTags
        /\ doc[i].attr = "class"
        /\ HasGoogle(Lower(doc[i].value))

\* browser_automation.py 124-130
DataLayer(doc) ==
    \E i \in 1..Len(doc) :
        /\ doc[i].tag \in ClickableTags
        /\ doc[i].attr \in {"data-provider", "data-auth"}
        /\ HasGoogle(Lower(doc[i].value))

FetchOutcomes == {"raises", "not_200", "ok"}
ParseOutcomes == {"raises", "ok"}

\* PrecheckGoogleOAuth without the except clause
PrecheckGoogleOAuth_NoExcept(fetch, parse, doc) ==
    IF fetch = "raises" THEN [raised |-> TRUE, value |-> FALSE]
    ELSE IF fetch = "not_200" THEN [raised |-> FALSE, value |-> FALSE]
    ELSE IF parse = "raises" THEN [raised |-> TRUE, value |-> FALSE]
    ELSE [raised |-> FALSE,
          value |-> HrefLayer(doc) \/ ActionLayer(doc) \/ TextLayer(doc)
                    \/ ClassLayer(doc) \/ DataLayer(doc)]

\* browser_automation.py 24-142
PrecheckGoogleOAuth(fetch, parse, doc) ==
    IF fetch = "raises" THEN [raised |-> FALSE, value |-> FALSE]
    ELSE IF fetch = "not_200" THEN [raised |-> FALSE, value |-> FALSE]
    ELSE IF parse = "raises" THEN [raised |-> FALSE, value |-> FALSE]
    ELSE [raised |-> FALSE,
          value |-> HrefLayer(doc) \/ ActionLayer(doc) \/ TextLayer(doc)
                    \/ ClassLayer(doc) \/ DataLayer(doc)]

PrecheckInit ==
    /\ AttemptInit
    /\ taskCall = NoCall
    /\ cliCall = NoCall
    /\ detectCall = NoCall
    /\ checkCall = NoCall
    /\ waitCall = NoCall
    /\ teardownCall = NoCall
    /\ sessionCall = NoCall
    /\ findCall = NoCall
    /\ \E fetch \in FetchOutcomes, parse \in ParseOutcomes :
         \E doc \in IF fetch = "ok" /\ parse = "ok"
                    THEN SeqsUpTo(Elements, MaxElements) ELSE {<< >>} :
           /\ fetch # "ok" => parse = "ok"
           /\ precheckCall = [fn |-> "precheck", fetch |-> fetch, parse |-> parse,
                              doc |-> doc, outcome |-> "pending", value |-> FALSE,
                              again |-> [fetch |-> "none", outcome |-> "pending",
                                         value |-> FALSE]]

\* PrecheckCall keeping its answer in the engine's has_google_oauth
PrecheckCall_RemembersAnswer ==
    /\ precheckCall.fn = "precheck"
    /\ precheckCall.outcome = "pending"
    /\ LET r == PrecheckGoogleOAuth(precheckCall.fetch, precheckCall.parse,
                                    precheckCall.doc)
       IN  /\ precheckCall' = [precheckCall EXCEPT
                                  !.outcome = IF r.raised THEN "raised" ELSE "returned",
                                  !.value = r.value]
           /\ engOauth' = IF r.value THEN "yes" ELSE "no"
    /\ UNCHANGED <<req, pc, method, acOauth, promptChoice, status, events, ops,
                   ran, result, outcome, eng, initCalls, closeCalls, engCalled,
                   sysOpens, lastLogin, oauth, formLocals>>
    /\ UNCHANGED <<detectCall, checkCall, waitCall, teardownCall, sessionCall, findCall, cliCall, taskCall>>

\* has_google_oauth = precheck_google_oauth(url, logger)
PrecheckCall ==
    /\ precheckCall.fn = "precheck"
    /\ precheckCall.outcome = "pending"
    /\ LET r == PrecheckGoogleOAuth(precheckCall.fetch, precheckCall.parse,
                                    precheckCall.doc)
       IN  precheckCall' = [precheckCall EXCEPT
                               !.outcome = IF r.raised THEN "raised" ELSE "returned",
                               !.value = r.value]
    /\ UNCHANGED <<attemptVars, detectCall, checkCall, waitCall, teardownCall, sessionCall, findCall, cliCall, taskCall>>

\* precheck_google_oauth(url, logger) once more: the fetch may fail this
\* time; when it succeeds the server sends the same HTML as before
PrecheckRepeat ==
    /\ precheckCall.fn = "precheck"
    /\ precheckCall.outcome # "pending"
    /\ precheckCall.again.outcome = "pending"
    /\ \E fetch \in IF precheckCall.fetch = "ok" THEN FetchOutcomes
                     ELSE FetchOutcomes \ {"ok"} :
         LET r == PrecheckGoogleOAuth(fetch, precheckCall.parse, precheckCall.doc)
         IN  precheckCall' = [precheckCall EXCEPT
                                 !.again = [fetch |-> fetch,
                                            outcome |-> IF r.raised THEN "raised"
                                                        ELSE "returned",
                                            value |-> r.value]]
    /\ UNCHANGED <<attemptVars, detectCall, checkCall, waitCall, teardownCall, sessionCall, findCall, cliCall, taskCall>>

PrecheckNext ==
    \/ PrecheckCall
    \/ PrecheckRepeat

PrecheckSpec == PrecheckInit /\ [][PrecheckNext]_vars

----------------------------------------------------------------------------
(* Properties *)

IsPrefix(s, t) ==
    /\ Len(s) <= Len(t)
    /\ \A i \in 1..Len(s) : s[i] = t[i]

SentByForm(e) == e.by = "Form"
SentByOAuth(e) == e.by = "OAuth"

FormEvents == SelectSeq(events, SentByForm)
OAuthEvents == SelectSeq(events, SentByOAuth)

StagesOf(evts) == [i \in 1..Len(evts) |-> evts[i].stage]

\* C1: an attempt through AppCore with stored credentials, no explicit
\* method, the precheck reporting OAuth and no prompt callback never gets to
\* the engine (no initialize, no login_to_website, no strategy, no page
\* operation) and returns stage = prompt_missing with success = false.
C1_Case ==
    /\ req.entry = "appcore"
    /\ req.cred = "stored"
    /\ req.method = "none"
    /\ acOauth = "yes"
    /\ ~req.hasPrompt

C1_PromptMissingOpensNoBrowser ==
    C1_Case =>
        /\ pc \in {"ac_credentials", "ac_prompt", "done"}
        /\ ~engCalled
        /\ initCalls = 0
        /\ ran = {}
        /\ ops = << >>
        /\ pc = "done" => /\ outcome = "returned"
                          /\ result.stage = "prompt_missing"
                          /\ result.success = "false"

C1_Witness ==
    /\ C1_Case
    /\ pc = "done"
    /\ result.stage = "prompt_missing"
    /\ ~eng.initialized

\* C2: in an attempt started without an explicit method the OAuth strategy
\* runs only if the prompt was invoked and answered "continue_automation".
C2_OAuthOnlyWithConsent ==
    (req.method = "none" /\ "OAuth" \in ran) => promptChoice = "continue_automation"

\* C3: with an explicit method the dispatcher runs exactly that strategy:
\* "playwright" runs the OAuth strategy, "system_browser" the Manual one.
C3_ExplicitStrategyIsRun ==
    (req.entry \in {"appcore", "engine"} /\ ran # {}) =>
        /\ req.method = "playwright" => ran = {"OAuth"}
        /\ req.method = "system_browser" => ran = {"Manual"}

\* C4: without an explicit method, and with no precheck of the attempt
\* reporting OAuth, the strategy the dispatcher starts is the Form strategy
\* and no other strategy is started.
C4_Case ==
    /\ req.entry \in {"appcore", "engine"}
    /\ req.method = "none"
    /\ acOauth # "yes"
    /\ engOauth # "yes"

Dispatched ==
    pc \in {"form_start", "form_goto", "form_detect", "form_fill", "form_submit",
            "form_captcha", "form_two_factor", "form_wait", "form_check",
            "oauth_start", "oauth_goto", "oauth_find", "oauth_click",
            "oauth_popup", "oauth_fill", "oauth_wait", "oauth_two_factor",
            "oauth_check", "eng_post", "ac_finish"}

C4_FormWhenNoOAuth ==
    C4_Case =>
        /\ Dispatched => ran = {"Form"}
        /\ ran \subseteq {"Form"}
        /\ pc \notin {"oauth_start", "oauth_goto", "oauth_find", "oauth_click",
                      "oauth_popup", "oauth_fill", "oauth_wait",
                      "oauth_two_factor", "oauth_check"}

C4_Witness ==
    /\ C4_Case
    /\ req.entry = "appcore"
    /\ acOauth = "no"
    /\ engOauth = "no"
    /\ pc = "done"
    /\ ran = {"Form"}
    /\ result.stage = "success"

\* C5: with force_prompt set and no explicit method, no strategy's login is
\* started unless the caller was asked to choose.
C5_ForcePromptAsksFirst ==
    (req.forcePrompt /\ req.method = "none" /\ ran # {}) => promptChoice # "unasked"

\* C6: an attempt that ends in ambiguous_form, captcha_detected or
\* two_factor_detected returns success = false and requires_user_action = true.
C6_TerminalNeedsUserAction ==
    (outcome = "returned" /\
     result.stage \in {"ambiguous_form", "captcha_detected", "two_factor_detected"}) =>
        /\ result.success = "false"
        /\ result.rua

\* C7: the Manual strategy opens the system browser exactly once, hands one
\* status to the callback, returns stage = manual_login with success unknown
\* and requires_user_action = true, and leaves the browser session alone.
C7_ManualDone ==
    (req.entry = "manual" /\ pc = "done") =>
        /\ outcome = "returned"
        /\ sysOpens = 1
        /\ ran = {"Manual"}
        /\ result.stage = "manual_login"
        /\ result.success = "unknown"
        /\ result.rua
        /\ Len(events) = IF req.hasCallback THEN 1 ELSE 0
        /\ \A i \in 1..Len(events) : /\ events[i].by = "Manual"
                                     /\ events[i].stage = "manual_login"
                                     /\ events[i].success = "unknown"
                                     /\ events[i].rua
        /\ ~engCalled
        /\ initCalls = 0
        /\ closeCalls = 0
        /\ ops = << >>

C7_ManualStrategy ==
    /\ [] C7_ManualDone
    /\ [][req.entry = "manual" => eng' = eng]_vars

C7_Witness ==
    /\ req.entry = "manual"
    /\ pc = "done"
    /\ req.hasCallback
    /\ Len(events) = 1
    /\ sysOpens = 1

\* C8: a Form attempt runs its phases in the fixed order, each at most once,
\* and the stages it hands to the callback are a prefix of navigating,
\* detecting_form, filling_form, submitting, one of captcha_detected /
\* two_factor_detected / waiting_for_navigation, then success or error.
FormPhases ==
    <<"goto", "detect", "fill", "submit", "captcha_check", "two_factor_check",
      "wait_navigation", "success_check">>

FormLeadingStages == <<"navigating", "detecting_form", "filling_form", "submitting">>

FormStagesInOrder(st) ==
    /\ IsPrefix(SubSeq(st, 1, IF Len(st) < 4 THEN Len(st) ELSE 4), FormLeadingStages)
    /\ Len(st) <= 6
    /\ Len(st) >= 5 => st[5] \in {"captcha_detected", "two_factor_detected",
                                  "waiting_for_navigation"}
    /\ Len(st) = 6 => st[6] \in {"success", "error"}
    /\ \A i, j \in 1..Len(st) : i # j => st[i] # st[j]

C8_FormStageOrder ==
    "Form" \in ran =>
        /\ IsPrefix(ops, FormPhases)
        /\ FormStagesInOrder(StagesOf(FormEvents))

C8_Witness ==
    /\ "Form" \in ran
    /\ pc = "done"
    /\ ops = FormPhases
    /\ StagesOf(FormEvents) = FormLeadingStages \o <<"waiting_for_navigation", "success">>

\* C9 as stated: the stages of an OAuth attempt are emitted in the order
\* navigating, detecting_google_oauth, clicking_google_oauth,
\* filling_google_form, waiting_for_2fa, waiting_for_google_auth, success or
\* error; so waiting_for_2fa comes before waiting_for_google_auth.
RankAsStated(stage) ==
    CASE stage = "navigating"              -> 1
      [] stage = "detecting_google_oauth"  -> 2
      [] stage = "clicking_google_oauth"   -> 3
      [] stage = "filling_google_form"     -> 4
      [] stage = "waiting_for_2fa"         -> 5
      [] stage = "waiting_for_google_auth" -> 6
      [] stage \in {"success", "error"}    -> 7
      [] OTHER                             -> 0

C9_Original ==
    \A i, j \in 1..Len(OAuthEvents) :
        i < j => /\ RankAsStated(OAuthEvents[i].stage) > 0
                 /\ RankAsStated(OAuthEvents[i].stage) < RankAsStated(OAuthEvents[j].stage)

\* C9 amended: the stages of an OAuth attempt are emitted in the order
\* navigating, detecting_google_oauth, clicking_google_oauth,
\* filling_google_form, waiting_for_google_auth, optionally waiting_for_2fa,
\* then success or error; waiting_for_2fa comes after waiting_for_google_auth.
RankInCode(stage) ==
    CASE stage = "navigating"              -> 1
      [] stage = "detecting_google_oauth"  -> 2
      [] stage = "clicking_google_oauth"   -> 3
      [] stage = "filling_google_form"     -> 4
      [] stage = "waiting_for_google_auth" -> 5
      [] stage = "waiting_for_2fa"         -> 6
      [] stage \in {"success", "error"}    -> 7
      [] OTHER                             -> 0

C9_OAuthStageOrder ==
    /\ \A i \in 1..Len(OAuthEvents) :
          /\ RankInCode(OAuthEvents[i].stage) > 0
          /\ i = 1 => OAuthEvents[i].stage = "navigating"
          /\ (i > 1 /\ RankInCode(OAuthEvents[i].stage) <= 6) =>
                RankInCode(OAuthEvents[i].stage) = RankInCode(OAuthEvents[i-1].stage) + 1
    /\ \A i, j \in 1..Len(OAuthEvents) :
          i < j => RankInCode(OAuthEvents[i].stage) < RankInCode(OAuthEvents[j].stage)

C9_Witness ==
    /\ "OAuth" \in ran
    /\ pc = "done"
    /\ StagesOf(OAuthEvents) =
         <<"navigating", "detecting_google_oauth", "clicking_google_oauth",
           "filling_google_form", "waiting_for_google_auth", "waiting_for_2fa",
           "success">>

\* C10 as stated: every event delivered in an attempt except the last one
\* has success unknown (so nothing is delivered after a decided event).
C10_Original ==
    \A i \in 1..Len(events) : i < Len(events) => events[i].success = "unknown"

\* C10 amended: every event delivered before the first decided one has
\* success unknown, and at most one event follows a decided one: the engine's
\* post_login_delay event (success true) right after a success event, or
\* AppCore's error event (success false) for an exception that left
\* login_to_website after the strategy's last event.
C10_OnlyClosingEventsAfterDecision ==
    \A i \in 1..Len(events) :
        (events[i].success # "unknown" /\ i < Len(events)) =>
            /\ i + 1 = Len(events)
            /\ \/ /\ events[i].stage = "success"
                  /\ events[i + 1] = [stage |-> "post_login_delay", success |-> "true",
                                      rua |-> FALSE, by |-> "Engine"]
               \/ /\ events[i + 1] = [stage |-> "error", success |-> "false",
                                      rua |-> FALSE, by |-> "AppCore"]
                  /\ req.delay = "text"

C10_Witness ==
    /\ pc = "done"
    /\ Len(events) >= 2
    /\ events[Len(events) - 1].stage = "success"
    /\ events[Len(events)].stage = "post_login_delay"
    /\ events[Len(events)].success = "true"

----------------------------------------------------------------------------
(* Form Detector *)

DetectReturned == detectCall.fn = "detect" /\ detectCall.returned

\* every input of the page under detection
InputsOfPage ==
    {FieldAt(detectCall.page, f) :
        f \in {PageFields(detectCall.page)[i] :
                 i \in 1..Len(PageFields(detectCall.page))}}

\* the scores of the returned candidates other than the one at position i
ScoresBut(cs, i) == {cs[j].score : j \in (1..Len(cs)) \ {i}}

\* C11: the detector's result has ambiguous = true exactly when the best
\* candidate lacks a username or a password field (no candidate at all
\* included), or there are two candidates and the two highest scores differ
\* by less than 1.0, or the best score is below 2.5; a page without a password
\* input gives ambiguous = true and a null password field.
C11_AmbiguousExactlyWhen ==
    DetectReturned =>
        LET r == detectCall.result
            cs == r.all_candidates
            lacksField == r.username_field = NoField \/ r.password_field = NoField
            tooClose == /\ Len(cs) >= 2
                        /\ \E s \in ScoresBut(cs, 1) :
                              /\ \A t \in ScoresBut(cs, 1) : t <= s
                              /\ r.score - s < 2
            tooLow == r.score < 5
        IN  /\ r.ambiguous <=> (lacksField \/ tooClose \/ tooLow)
            /\ cs = << >> => lacksField
            /\ cs # << >> => /\ r.username_field = cs[1].username_field
                             /\ r.password_field = cs[1].password_field
                             /\ r.score = cs[1].score
                             /\ \A i \in 1..Len(cs) : cs[i].score <= r.score
            /\ (\A f \in InputsOfPage : f.type # "password") =>
                  (r.ambiguous /\ r.password_field = NoField)

\* two complete candidates, both above the floor, less than 1.0 apart
C11_Witness ==
    /\ DetectReturned
    /\ Len(detectCall.result.all_candidates) >= 2
    /\ detectCall.result.all_candidates[2].score >= 5
    /\ detectCall.result.score - detectCall.result.all_candidates[2].score < 2
    /\ detectCall.result.ambiguous

\* the page has exactly one text/email input and exactly one password input,
\* both in form k, and form k has a submit control
OnePairInForm(page, k) ==
    LET fields == {PageFields(page)[i] : i \in 1..Len(PageFields(page))}
        users == {f \in fields : FieldAt(page, f).type \in {"text", "email"}}
        passwords == {f \in fields : FieldAt(page, f).type = "password"}
    IN  /\ Cardinality(users) = 1
        /\ Cardinality(passwords) = 1
        /\ \A f \in users \union passwords : f.form = k
        /\ page.forms[k].submit

EmailNamedForm ==
    [forms |-> <<[inputs |-> <<Input("", {}, {}, {"email"}),
                               Input("password", {}, {}, {})>>,
                  submit |-> TRUE]>>,
     loose |-> << >>]

\* C13: on a page whose only form holds an input named "email" without a
\* type attribute, a password input and a submit button, the detector
\* returns that pair with ambiguous = false.
C13_UntypedInputIsUsername ==
    (DetectReturned /\ detectCall.page = EmailNamedForm) =>
        /\ detectCall.result.username_field = Field(1, 1)
        /\ detectCall.result.password_field = Field(1, 2)
        /\ ~detectCall.result.ambiguous

----------------------------------------------------------------------------
(* Form strategy: login success check *)

\* C14: when the page's domain after submission differs from the domain of
\* the request URL, the success check returns true and the Form strategy
\* ends with stage = success, success = true.
C14_OtherDomainIsSuccess ==
    (/\ checkCall.fn = "check"
     /\ checkCall.outcome \in {"true", "false"}
     /\ checkCall.current.host # Netloc(checkCall.url)) =>
        /\ checkCall.outcome = "true"
        /\ checkCall.stage = "success"
        /\ checkCall.success = "true"

----------------------------------------------------------------------------
(* wait_for_user_action *)

\* the last poll found the URL changed or a success token in the title
LastPollSawUserAction ==
    \/ waitCall.newUrl # waitCall.startUrl
    \/ waitCall.newTitle \in {"Welcome back", "LOGIN SUCCESS"}

\* C15: on an open session the wait does not raise; the polls are one second
\* apart; it returns true exactly from a poll that finds the URL different
\* from its value at the start or a success token ("success", "welcome", in
\* any case) in the title, and no such poll is followed by another one; it
\* returns false only when `timeout` has passed, at most one poll interval
\* (1 s) after it, and so never immediately for a positive timeout.
C15_WaitPollsUntilTimeout ==
    waitCall.fn = "wait" =>
        /\ waitCall.phase = "raised" => ~(waitCall.initialized /\ waitCall.page)
        /\ waitCall.clock = 2 * waitCall.polls
        /\ (waitCall.phase = "polling" /\ waitCall.polls >= 1) => ~LastPollSawUserAction
        /\ (waitCall.phase = "returned" /\ waitCall.result) =>
              (waitCall.polls >= 1 /\ LastPollSawUserAction)
        /\ (waitCall.phase = "returned" /\ ~waitCall.result) =>
              /\ waitCall.polls >= 1 => ~LastPollSawUserAction
              /\ waitCall.clock >= waitCall.timeout
              /\ waitCall.clock <= waitCall.timeout + 2
              /\ waitCall.timeout > 0 => waitCall.clock > 0

\* a page that never changes, with a timeout of 1.5 s: false after 2 s
C15_Witness ==
    /\ waitCall.fn = "wait"
    /\ waitCall.phase = "returned"
    /\ ~waitCall.result
    /\ ~waitCall.pageChanged
    /\ waitCall.timeout = 3
    /\ waitCall.clock = 4

----------------------------------------------------------------------------
(* Session teardown *)

Closes == IF teardownCall.fn = "close" THEN teardownCall.closes ELSE << >>

\* the failures the call met at the steps it attempted
FailuresMet(c) ==
    {c.failures[step] : step \in {c.attempted[i] : i \in 1..Len(c.attempted)}} \ {"none"}

\* C16: the second of two close() calls in a row never raises, whatever
\* happened in the first.
C16_SecondCloseNeverRaises ==
    Len(Closes) >= 2 => ~Closes[2].raised

C18_LoopClosedIsSwallowed ==
    \A i \in 1..Len(Closes) :
        /\ FailuresMet(Closes[i]) \subseteq {"loop_closed"} => ~Closes[i].raised
        /\ Closes[i].raised => /\ "driver" \in {Closes[i].attempted[j] :
                                                  j \in 1..Len(Closes[i].attempted)}
                               /\ Closes[i].failures.driver = "other"

\* an open session whose four steps all meet "Event loop is closed"
C18_Witness ==
    /\ Len(Closes) >= 1
    /\ Closes[1].before = OpenEngine
    /\ Closes[1].failures = [page |-> "loop_closed", context |-> "loop_closed",
                             browser |-> "loop_closed", driver |-> "loop_closed"]
    /\ Closes[1].attempted = <<"page", "context", "browser", "driver">>
    /\ ~Closes[1].raised

----------------------------------------------------------------------------
(* Prechecker *)

PrecheckOver == precheckCall.fn = "precheck" /\ precheckCall.outcome # "pending"

\* C19: precheck_google_oauth never raises and returns a boolean; it returns
\* false when the fetch fails, the status is not 200 or parsing fails.
C19_PrecheckNeverRaises ==
    PrecheckOver =>
        /\ precheckCall.outcome = "returned"
        /\ precheckCall.value \in BOOLEAN
        /\ (precheckCall.fetch # "ok" \/ precheckCall.parse # "ok") =>
              precheckCall.value = FALSE

C19_Witness ==
    /\ PrecheckOver
    /\ precheckCall.fetch = "raises"
    /\ precheckCall.outcome = "returned"
    /\ precheckCall.value = FALSE

\* the element matches one of the detection layers
InSomeLayer(el) ==
    LET oauthPath == {"https://accounts.google.com/o/oauth2/auth?client_id=1"}
        phrase == {"Sign in with Google", "CONTINUE WITH GOOGLE"}
        provider == Strings \ {"Sign in"}
        clickable == el.tag \in {"button", "a", "div", "span"}
    IN  \/ el.tag = "a" /\ el.attr = "href" /\ el.value \in oauthPath
        \/ el.tag = "form" /\ el.attr = "action" /\ el.value \in oauthPath
        \/ clickable /\ el.attr \in {"text", "aria-label", "title"} /\ el.value \in phrase
        \/ clickable /\ el.attr = "class" /\ el.value \in provider
        \/ clickable /\ el.attr \in {"data-provider", "data-auth"} /\ el.value \in provider

\* C20: for a fetched and parsed page the precheck returns true exactly when
\* some element matches a layer: an anchor href or form action with the
\* OAuth authorization path, or a button/anchor/div/span with a sign-in
\* phrase (in any case) in its text, aria-label or title, or with a provider
\* class pattern in its class list, or with the provider token in
\* data-provider or data-auth; one match in one layer is enough.
C20_TrueIffSomeLayerMatches ==
    (PrecheckOver /\ precheckCall.fetch = "ok" /\ precheckCall.parse = "ok") =>
        /\ precheckCall.outcome = "returned"
        /\ precheckCall.value <=>
              \E i \in 1..Len(precheckCall.doc) : InSomeLayer(precheckCall.doc[i])

\* a single upper-case phrase in an aria-label, nothing in the other layers
C20_Witness ==
    /\ PrecheckOver
    /\ precheckCall.doc = <<[tag |-> "div", attr |-> "aria-label",
                             value |-> "CONTINUE WITH GOOGLE"]>>
    /\ precheckCall.value = TRUE

----------------------------------------------------------------------------
(* Form strategy: ambiguous detection *)

\* C22: when form detection reports ambiguous = true, the Form strategy
\* calls neither _fill_login_form nor _submit_login_form in that attempt and
\* returns stage = ambiguous_form, success = false, with the detector's
\* ranked candidates under form_candidates.
C22_AmbiguousFillsNothing ==
    (formLocals.detected /\ formLocals.ambiguous) =>
        /\ \A i \in 1..Len(ops) : ops[i] \notin {"fill", "submit"}
        /\ status.stage = "ambiguous_form"
        /\ status.success = "false"
        /\ formLocals.form_candidates = formLocals.all_candidates

C22_Witness ==
    /\ pc = "done"
    /\ formLocals.detected
    /\ formLocals.ambiguous
    /\ formLocals.fields
    /\ formLocals.form_candidates = "ranked"
    /\ ops = <<"goto", "detect">>

----------------------------------------------------------------------------
(* Prechecker: determinism and side effects *)

----------------------------------------------------------------------------
(* Session: lazy, one launch while open *)

SessionCallsLaunch == sessionCall.last.op \in {"get", "initialize"}

\* C23: constructing the engine launches nothing; the first accessor or
\* initialize call on a new engine launches exactly one browser, one context
\* and one page; a call made while the session is open launches nothing and
\* returns the handles the session already holds.  (A launch can fail: the
\* first part is about the calls that return.)
C23_LazyAndOnceWhileOpen ==
    sessionCall.fn = "session" =>
        /\ sessionCall.last.op = "construct" =>
               /\ sessionCall.counts = NoHandles
               /\ sessionCall.handles = NoHandles
        /\ (/\ SessionCallsLaunch
            /\ sessionCall.last.before = ClosedEngine
            /\ ~sessionCall.last.raised) =>
               /\ sessionCall.last.launched = Resources
               /\ \A r \in Resources :
                     sessionCall.handles[r] = sessionCall.counts[r]
        /\ (SessionCallsLaunch /\ sessionCall.last.before = OpenEngine) =>
               /\ sessionCall.last.launched = {}
               /\ ~sessionCall.last.raised
               /\ sessionCall.handles = sessionCall.last.handles
               /\ sessionCall.last.resource # "none" =>
                     sessionCall.last.returned
                         = sessionCall.last.handles[sessionCall.last.resource]

\* initialize() on an open session whose handles come from the first launch
C23_Witness ==
    /\ sessionCall.fn = "session"
    /\ sessionCall.last.op = "initialize"
    /\ sessionCall.last.before = OpenEngine
    /\ sessionCall.counts = [r \in Resources |-> 1]
    /\ sessionCall.handles = [r \in Resources |-> 1]

----------------------------------------------------------------------------
(* AppCore.login_to_website_async: result and last-login record *)

AppCoreAttemptOver == req.entry = "appcore" /\ pc = "done"

\* C24: AppCore.login_to_website_async never raises, and every result it
\* returns has the keys url, stage, success and message.
C24_UniformResult ==
    AppCoreAttemptOver =>
        /\ outcome = "returned"
        /\ result.stage # "absent"
        /\ result.success \in {"true", "false", "unknown"}

\* C25 as stated: every AppCore attempt that reached the engine and whose
\* result carries success true or false updated the last-login record once,
\* with that value; the other attempts did not update it.
C25_RecordedWheneverEngineReached ==
    AppCoreAttemptOver =>
        lastLogin = IF engCalled /\ result.success # "unknown"
                    THEN <<result.success>>
                    ELSE << >>

\* C25: the last-login record is updated only by the step that receives the
\* status the engine returned: once, with that status's success value, when
\* the value is true or false, and not when it is None.  An attempt that
\* ended before the engine was called, or in which the engine raised, has
\* updated nothing.
C25_RecordedWhenEngineReturned ==
    /\ [](AppCoreAttemptOver =>
            /\ Len(lastLogin) <= 1
            /\ lastLogin # << >> => /\ engCalled
                                    /\ lastLogin = <<result.success>>
                                    /\ result.success # "unknown")
    /\ [][/\ (pc = "ac_finish" /\ pc' = "done") =>
                /\ lastLogin = << >>
                /\ result' = status
                /\ lastLogin' = IF status.success # "unknown"
                                THEN <<status.success>>
                                ELSE << >>
          /\ (lastLogin' # lastLogin /\ pc' # "idle") => pc = "ac_finish"]_vars

\* a login stopped by a CAPTCHA, recorded once as failed
C25_Witness ==
    /\ AppCoreAttemptOver
    /\ engCalled
    /\ result.stage = "captcha_detected"
    /\ lastLogin = <<"false">>

\* C26: with a post_login_delay that is not a number, or is negative, a login
\* the strategy reported as successful still completes: the caller gets the
\* successful result.
C26_BadDelayStillCompletes ==
    (/\ pc = "done"
     /\ req.entry \in {"appcore", "engine"}
     /\ req.delay \in {"negative", "text"}
     /\ status.success = "true") =>
        /\ outcome = "returned"
        /\ result.success = "true"

----------------------------------------------------------------------------
(* Form detector: the score of a pair, and the page-wide search *)

Descriptors(f) == f.label \cup f.placeholder \cup f.name

\* the score of a username candidate and of a password candidate without
\* the "login" bonus, in half points
UsernamePoints(f) ==
    (IF "user" \in Descriptors(f) THEN 4 ELSE 0)
    + (IF "email" \in Descriptors(f) THEN 4 ELSE 0)
    + (IF f.type = "email" THEN 3 ELSE 0)

PasswordPoints(f) ==
    (IF "pass" \in Descriptors(f) THEN 4 ELSE 0)
    + (IF f.type = "password" THEN 4 ELSE 0)

SaysLogin(f) == "login" \in Descriptors(f)

\* the pair's score without any "login" bonus
PairPoints(page, c) ==
    UsernamePoints(FieldAt(page, c.username_field))
    + PasswordPoints(FieldAt(page, c.password_field))
    + (IF Distance(c.username_field.index, c.password_field.index) <= 2
       THEN 2 ELSE 0)
    + (IF page.forms[c.form].submit THEN 1 ELSE 0)

\* the candidates the detector returned for pairs inside a form
InFormCandidates ==
    {c \in {detectCall.result.all_candidates[i] :
               i \in 1..Len(detectCall.result.all_candidates)} : c.form # 0}

\* C27 as stated: the score of a pair in a form is the username score plus
\* the password score plus 1.0 iff the two inputs are at most 2 positions
\* apart plus 0.5 iff the form has a submit control, the "login" bonus
\* adding 0.5 to the pair when any of the two fields says "login".
C27_LoginBonusOncePerPair ==
    DetectReturned =>
        \A c \in InFormCandidates :
            c.score = PairPoints(detectCall.page, c)
                      + (IF \/ SaysLogin(FieldAt(detectCall.page, c.username_field))
                            \/ SaysLogin(FieldAt(detectCall.page, c.password_field))
                         THEN 1 ELSE 0)

\* C27: the score of a pair in a form is the username score plus the
\* password score plus 1.0 iff the two inputs are at most 2 positions apart
\* plus 0.5 iff the form has a submit control, where each of the two field
\* scores includes 0.5 when that field says "login": 1.0 for the pair when
\* both do.
C27_LoginBonusPerField ==
    DetectReturned =>
        \A c \in InFormCandidates :
            c.score = PairPoints(detectCall.page, c)
                      + (IF SaysLogin(FieldAt(detectCall.page, c.username_field))
                         THEN 1 ELSE 0)
                      + (IF SaysLogin(FieldAt(detectCall.page, c.password_field))
                         THEN 1 ELSE 0)

\* both fields say "login", next to each other in a form with a submit
\* control: 2+2+1.5 + 2+2 + 0.5+0.5 + 1.0 + 0.5 = 12
C27_Witness ==
    /\ DetectReturned
    /\ detectCall.result.form # 0
    /\ SaysLogin(FieldAt(detectCall.page, detectCall.result.username_field))
    /\ SaysLogin(FieldAt(detectCall.page, detectCall.result.password_field))
    /\ detectCall.page.forms[detectCall.result.form].submit
    /\ detectCall.result.score = 24

\* C28: the page-wide pairing is used exactly when the page has no <form>
\* element: then every text/email input is paired with every password
\* input; on a page with at least one form every candidate pairs two inputs
\* of one form.
C28_FallbackOnlyWithoutForms ==
    DetectReturned =>
        LET page == detectCall.page
            cs == detectCall.result.all_candidates
        IN  IF page.forms = << >>
            THEN \A u, p \in 1..Len(page.loose) :
                    (page.loose[u].type \in {"text", "email"}
                        /\ page.loose[p].type = "password") =>
                    \E i \in 1..Len(cs) : /\ cs[i].form = 0
                                          /\ cs[i].username_field = Field(0, u)
                                          /\ cs[i].password_field = Field(0, p)
            ELSE \A i \in 1..Len(cs) :
                    /\ cs[i].form # 0
                    /\ cs[i].username_field.form = cs[i].form
                    /\ cs[i].password_field.form = cs[i].form

----------------------------------------------------------------------------
(* OAuth strategy: the popup and the search for the sign-in control *)

\* C29: once a popup has appeared, the popup is the page every later step
\* of the OAuth login works on: the credential fill, the 2FA detection, the
\* user-action wait and the final success check.
C29_PopupStaysActive ==
    oauth.popup =>
        /\ oauth.activePage = "popup"
        /\ \A i \in 1..Len(oauth.pages) : oauth.pages[i].page = "popup"

Count(log, x) == Cardinality({i \in 1..Len(log) : log[i] = x})

\* C30: the search makes at most two passes, each trying the selectors,
\* the XPath text search, the broad scan and the frame scan in that order
\* and stopping at the first with a visible match; the delay, the spoofed
\* user agent and the reload happen at most once, right after an empty first
\* pass; a search that found nothing ends with stage error, success false
\* and no click.
C30_SearchIsBounded ==
    findCall.fn = "find" =>
        LET log == findCall.log
            first == findCall.visible[1]
            second == findCall.visible[2]
            InOrder(m, b) ==
                \E i \in 1..4 : /\ LocatingStrategies[i] = b
                                /\ b \in m
                                /\ \A j \in 1..(i - 1) : LocatingStrategies[j] \notin m
        IN  /\ Count(log, "pass") <= 2
            /\ Count(log, "reload") <= 1
            /\ Count(log, "reload") = 1 =>
                  /\ SubSeq(log, 1, 4) = <<"pass", "delay", "user_agent", "reload">>
                  /\ first = {}
            /\ Count(log, "pass") = 2 => first = {}
            /\ findCall.google_button # "none" =>
                  InOrder(findCall.visible[findCall.foundOnPass], findCall.google_button)
            /\ findCall.at = "returned" =>
                  /\ findCall.stage = "error"
                  /\ findCall.success = "false"
                  /\ findCall.google_button = "none"
                  /\ Count(log, "click") = 0
            /\ findCall.at = "clicked" => findCall.google_button # "none"
            /\ (findCall.at \in {"returned", "clicked"} /\ findCall.failure = "none"
                   /\ first = {} /\ second = {}) =>
                  /\ findCall.at = "returned"
                  /\ log = <<"pass", "delay", "user_agent", "reload", "pass">>

\* nothing on the first pass; after the reload the broad scan and a frame
\* both see the control, and the scan's match is the one clicked
C30_Witness ==
    /\ findCall.fn = "find"
    /\ findCall.visible = <<{}, {"scan", "frames"}>>
    /\ findCall.google_button = "scan"
    /\ findCall.log = <<"pass", "delay", "user_agent", "reload", "pass", "click">>

----------------------------------------------------------------------------
(* OAuth strategy: the provider's 2FA challenge *)

TwoFactorWaitOver == oauth.waitEnd.how # "none"

StrategyOver == pc \in {"eng_post", "ac_finish", "ac_except", "done"}

\* the operations on the page once the 2FA wait has begun
OpsSinceTwoFactorWait ==
    {ops[j] : j \in {k \in 1..Len(ops) :
                       \E i \in 1..k : ops[i] = "wait_user_action"}}

----------------------------------------------------------------------------
(* CLI login command: interrupts and the release of the session *)

CliOver == cliCall.fn = "cli" /\ cliCall.at = "done"

\* C32: a Ctrl+C during the user-action wait skips that website only: it is
\* not recorded, and the loop goes on to the websites after it; when the
\* command finishes, on every path (Ctrl+C outside the wait and exceptions
\* included), close() has been called on the session if the engine held a
\* browser, and an open session that close() could close is closed.
C32_InterruptSkipsAndSessionReleased ==
    cliCall.fn = "cli" =>
        /\ \A k \in cliCall.skipped :
              /\ k \in cliCall.attempted
              /\ k \notin cliCall.recorded
              /\ k < cliCall.n =>
                    /\ cliCall.i > k
                    /\ (CliOver /\ ~cliCall.raised /\ ~cliCall.interrupted) =>
                          cliCall.attempted = 1..cliCall.n
        /\ CliOver =>
              /\ cliCall.atFinally.browser => cliCall.closeCalls = 1
              /\ (cliCall.atFinally = OpenEngine /\ cliCall.closeFailure = "none") =>
                    cliCall.eng = ClosedEngine

\* Ctrl+C during the wait for the first of two websites; the second one is
\* attempted and fails, and the open session is closed at the end
C32_Witness ==
    /\ CliOver
    /\ cliCall.n = 2
    /\ cliCall.skipped = {1}
    /\ cliCall.attempted = {1, 2}
    /\ cliCall.recorded = {2}
    /\ cliCall.atFinally = OpenEngine
    /\ cliCall.closeCalls = 1
    /\ cliCall.eng = ClosedEngine

----------------------------------------------------------------------------
(* Status stream: the result and the last event *)

\* C33: the status login_to_website returns has been delivered to the
\* status callback, as the last event of the attempt.
C33_ResultIsLastEvent ==
    (/\ pc = "done"
     /\ req.entry = "engine"
     /\ req.hasCallback
     /\ outcome = "returned") =>
        /\ events # << >>
        /\ events[Len(events)].stage = result.stage
        /\ events[Len(events)].success = result.success

----------------------------------------------------------------------------
(* Form strategy: the failed login *)

\* C35: when the page after submission is still on the request URL's own
\* domain and its URL holds a login indicator, or its content holds one of
\* the known error messages, the Form strategy ends with stage=error,
\* success=false: the check compares the current URL with the request URL.
C35_StillOnLoginPageIsError ==
    (/\ checkCall.fn = "check"
     /\ checkCall.outcome \in {"true", "false"}
     /\ checkCall.current.host = Netloc(checkCall.url)
     /\ checkCall.current.loginWord \/ checkCall.content = "error_text") =>
        /\ checkCall.outcome = "false"
        /\ checkCall.stage = "error"
        /\ checkCall.success = "false"

----------------------------------------------------------------------------
(* OAuth strategy: where the provider credentials are typed *)

\* C34: the OAuth strategy types the provider username and password only
\* when the page tested after the click is on the provider's sign-in domain
\* accounts.google.com; otherwise the attempt ends with stage=error and
\* nothing is typed.
C34_FilledOnlyOnProvider ==
    /\ (\E i \in 1..Len(ops) : ops[i] = "fill_credentials") =>
          oauth.landed.host = Provider
    /\ (StrategyOver /\ \E i \in 1..Len(ops) : ops[i] = "await_popup") =>
          (oauth.landed.host # Provider =>
              /\ status.stage = "error"
              /\ status.success = "false")

----------------------------------------------------------------------------
(* AppCore: the manual browser handoff *)

\* C36: once the user has answered the prompt with the manual browser
\* handoff, no automated strategy is run in the attempt: the engine fills no
\* stored credential and submits no form.
C36_ManualHandoffRunsNoAutomation ==
    promptChoice = "manual_browser" =>
        /\ ran \cap {"Form", "OAuth"} = {}
        /\ \A i \in 1..Len(ops) : ops[i] \notin {"fill", "submit", "fill_credentials"}

----------------------------------------------------------------------------
(* Session: what the fields hold between calls *)

\* C37: between calls the engine is initialized exactly when it holds a
\* browser, a context and a page, whatever failed in the calls before; and
\* after a close() that returned without raising the engine is uninitialized
\* and holds no page, context, browser or driver.
C37_SessionInvariant ==
    sessionCall.fn = "session" =>
        /\ sessionCall.eng.initialized <=>
              (sessionCall.eng.browser /\ sessionCall.eng.context /\ sessionCall.eng.page)
        /\ (sessionCall.last.op = "close" /\ ~sessionCall.last.raised) =>
              sessionCall.eng = ClosedEngine

\* C38: after a close() the engine holds nothing that an earlier initialize()
\* acquired, also when that initialize() failed after it had started the
\* driver.
C38_CloseReleasesWhatInitializeAcquired ==
    (sessionCall.fn = "session" /\ sessionCall.last.op = "close") =>
        \A r \in {"playwright", "browser", "context", "page"} : ~sessionCall.eng[r]

----------------------------------------------------------------------------
(* Login tasks side by side *)

\* the strategy of task t has navigated the page and has not returned
InStrategy(t) == taskCall.task[t].pc \in {"navigated", "filled"}

\* C39: login tasks started on one AppCore do not interfere through the
\* shared engine: while the strategy of one task uses the page, the engine
\* still holds the page that task navigated and the page still shows that
\* task's site (no other task navigated it, closed it or launched another).
C39_TasksDoNotInterfere ==
    taskCall.fn = "tasks" =>
        \A t \in Tasks :
            InStrategy(t) => /\ taskCall.eng.page = taskCall.task[t].page
                             /\ taskCall.shows = t

----------------------------------------------------------------------------
(* BrowserAutomation.login_to_website: what follows the strategy *)

\* the step in which login_to_website returns the strategy's status
PostLoginReturns ==
    /\ pc = "eng_post"
    /\ \/ pc' = "ac_finish"
       \/ pc' = "done" /\ outcome' = "returned"

\* C40: when login_to_website returns success = true, the post_login_delay
\* event was delivered right after the strategy's success event and the
\* session is closed before the return; when it returns success = false or
\* unknown, the session is left open and unchanged.
C40_ClosedExactlyAfterSuccess ==
    [][PostLoginReturns =>
          IF status.success = "true"
          THEN /\ req.hasCallback =>
                     /\ events # << >>
                     /\ events[Len(events)].stage = "success"
                     /\ events[Len(events)].success = "true"
                     /\ events' = Append(events, Delivered(PostLoginStatus, "Engine"))
               /\ eng' = ClosedEngine
          ELSE /\ eng.initialized
               /\ eng' = eng
               /\ closeCalls' = closeCalls
               /\ events' = events]_vars

====
